---------------------------- MODULE Spec2Model ----------------------------
(***************************************************************************)
(* Junctions (P6::All, P6::Any, P6::None, P6::One): collection-valued      *)
(* terms that collapse to a boolean under the six comparison operators.    *)
(*                                                                         *)
(* The model follows the headers Junction.h, JunctionSortedStore.h,        *)
(* JunctionPiggyBackStore.h, JunctionAll.h, JunctionAny.h, JunctionOne.h   *)
(* and JunctionReverseComparisons.h, and is driven the way testbed.cpp     *)
(* drives them: a caller owns a container, builds a junction over it with  *)
(* one of the helper functions, and compares that junction with a constant *)
(* (in both operand orders, untouched or after applying a lambda) or with  *)
(* a second junction.                                                      *)
(*                                                                         *)
(* Elements are unsigned integers as in testbed.cpp; the values used stay  *)
(* far below 2^32, so no arithmetic of the model wraps.                    *)
(***************************************************************************)
EXTENDS Integers, Sequences, FiniteSets, TLC

VARIABLES
    abc,    \* the caller's container the left junction is built over
    def,    \* the caller's container the right junction is built over
    j,      \* the left junction (NoJunction before it is built)
    k,      \* the right junction (NoJunction before it is built)
    res     \* what the last comparison call returned (NoResult before any)

vars == <<abc, def, j, k, res>>

-----------------------------------------------------------------------------
(* Bounds of the model. *)

MaxLen == 2     \* longest vector or initializer list of the caller
MaxVal == 2     \* elements are drawn from 0 .. MaxVal

Values == 0 .. MaxVal

\* Constants a junction is compared with: the values and one past them.
Constants == 0 .. (MaxVal + 1)

RECURSIVE SeqsUpTo(_, _)
SeqsUpTo(S, n) ==
    IF n = 0 THEN {<<>>}
    ELSE LET shorter == SeqsUpTo(S, n - 1)
         IN  shorter \cup {Append(s, e) : s \in shorter, e \in S}

\* What a std::vector or a std::initializer_list can hold: the values in any
\* order, repeated or not.
Vectors == SeqsUpTo(Values, MaxLen)

\* What a std::set can hold: any of the values, once each, ascending.
Sets ==
    {s \in SeqsUpTo(Values, MaxVal + 1) :
        \A i \in 1 .. Len(s) - 1 : s[i] < s[i + 1]}

\* The worked examples of the documentation and of samples.cpp.
SampleContainers == {<<1, 2, 3, 4>>, <<2, 3, 4>>, <<1, 2, 3>>, <<1, 1, 1>>}
SampleRightContainers == {<<1, 5, 9>>}
SampleConstants == {4}

LeftContainers == Vectors \cup Sets \cup SampleContainers
RightContainers == Vectors \cup SampleRightContainers
AllConstants == Constants \cup SampleConstants

-----------------------------------------------------------------------------
(* Junction.h: the junction types. *)

JunctionTypes == {"None", "One", "Any", "All"}

NoJunction == [type |-> "NoJunction"]
NoResult == [form |-> "NoResult"]

\* The six comparisons, in the order of testbed.cpp's enum class Compare.
Comparisons == {"Less", "LessEq", "Equal", "NotEqual", "GreaterEq", "Greater"}

\* A plain element as an operand of a comparison.
Element(n) == [type |-> "Element", value |-> n]

\* Details::IsJunction<T>::value
IsJunction(x) == x.type \in JunctionTypes

\* Details::IsOnlySecondAJunction<T, U>::value
IsOnlySecondAJunction(t, u) == IsJunction(u) /\ ~IsJunction(t)

-----------------------------------------------------------------------------
(* JunctionSortedStore.h: std::set<Element>, built by insertion. *)

\* A faulty insert that keeps a value it already holds (a multiset's insert).
RECURSIVE SetInsert_KeepingDuplicates(_, _)
SetInsert_KeepingDuplicates(elements, e) ==
    IF elements = <<>> THEN <<e>>
    ELSE IF e <= Head(elements) THEN <<e>> \o elements
    ELSE <<Head(elements)>> \o SetInsert_KeepingDuplicates(Tail(elements), e)

\* std::set<Element>::insert: keeps ascending order, ignores a value it holds.
RECURSIVE SetInsert(_, _)
SetInsert(elements, e) ==
    IF elements = <<>> THEN <<e>>
    ELSE IF e = Head(elements) THEN elements
    ELSE IF e < Head(elements) THEN <<e>> \o elements
    ELSE <<Head(elements)>> \o SetInsert(Tail(elements), e)

\* std::set<Element>(begin, end) and std::set<Element>(ilist)
RECURSIVE StdSet(_)
StdSet(range) ==
    IF range = <<>> THEN <<>>
    ELSE SetInsert(StdSet(SubSeq(range, 1, Len(range) - 1)), range[Len(range)])

\* A sequence a std::set can present: strictly ascending.
IsStdSet(container) ==
    \A i \in 1 .. Len(container) - 1 : container[i] < container[i + 1]

\* JunctionSortedStore(ilist) / JunctionSortedStore(begin, end)
JunctionSortedStore(range) ==
    [Ordered |-> TRUE, elements |-> StdSet(range), moved |-> FALSE]

\* JunctionSortedStore(std::set &&): the set's contents as they are, and the
\* flag CalledMoveConstructor() reports.
JunctionSortedStoreFromSet(set) ==
    [Ordered |-> TRUE, elements |-> set, moved |-> TRUE]

\* JunctionPiggyBackStore(container): a reference to the caller's container.
JunctionPiggyBackStore(name) == [Ordered |-> FALSE, container |-> name]

\* A junction is its store and its type.
NewJunction(type, store) ==
    IF store.Ordered
    THEN [type |-> type, Ordered |-> TRUE, elements |-> store.elements,
          moved |-> store.moved]
    ELSE [type |-> type, Ordered |-> FALSE, container |-> store.container]

\* Elements(): the set's contents, or the referenced container as it is now.
Elements(jct) ==
    IF jct.Ordered THEN jct.elements
    ELSE IF jct.container = "abc" THEN abc ELSE def

IsEmpty(jct) == Len(Elements(jct)) = 0

GetSize(jct) == Len(jct.elements)

HasSecondElement(jct) == GetSize(jct) >= 2

FirstElement(jct) == jct.elements[1]

SecondElement(jct) == jct.elements[2]

\* A faulty PenultimateElement that counts from the front.
PenultimateElement_FromTheFront(jct) == jct.elements[2]

PenultimateElement(jct) == jct.elements[Len(jct.elements) - 1]

LastElement(jct) == jct.elements[Len(jct.elements)]

-----------------------------------------------------------------------------
(* a OP b for operands that are elements or junctions.  C++ picks a junction's
   member operator when the left operand is a junction, the reverse operator
   of JunctionReverseComparisons.h when only the right operand is one, and
   the built-in comparison of unsigned integers otherwise. *)

RECURSIVE compare(_, _, _)

\* AnyOrNone::Invert, with MustInvert true for a None-junction
MustInvert(jct) == jct.type = "None"

\* A faulty Invert that forgets MustInvert.
Invert_Never(jct, b) == b

Invert(jct, b) == (b /\ ~MustInvert(jct)) \/ (~b /\ MustInvert(jct))

IsNone(rhs) == rhs.type = "None"

IsOne(rhs) == rhs.type = "One"

\* All::CheckAllElements called with [&rhs] (elem) {return elem OP rhs;}:
\* false at the first element that fails the test.
RECURSIVE All_CheckFrom(_, _, _, _)
All_CheckFrom(elems, i, comparison, rhs) ==
    IF i > Len(elems) THEN TRUE
    ELSE IF ~compare(Element(elems[i]), rhs, comparison) THEN FALSE
    ELSE All_CheckFrom(elems, i + 1, comparison, rhs)

All_CheckAllElements(jct, comparison, rhs) ==
    All_CheckFrom(Elements(jct), 1, comparison, rhs)

\* A faulty scan of AnyOrNone that stops before the last element.
RECURSIVE AnyOrNone_CheckFrom_MissingLast(_, _, _, _)
AnyOrNone_CheckFrom_MissingLast(elems, i, comparison, rhs) ==
    IF i >= Len(elems) THEN FALSE
    ELSE IF compare(Element(elems[i]), rhs, comparison) THEN TRUE
    ELSE AnyOrNone_CheckFrom_MissingLast(elems, i + 1, comparison, rhs)

\* AnyOrNone::CheckAllElements: true at the first element that passes.
RECURSIVE AnyOrNone_CheckFrom(_, _, _, _)
AnyOrNone_CheckFrom(elems, i, comparison, rhs) ==
    IF i > Len(elems) THEN FALSE
    ELSE IF compare(Element(elems[i]), rhs, comparison) THEN TRUE
    ELSE AnyOrNone_CheckFrom(elems, i + 1, comparison, rhs)

AnyOrNone_CheckAllElements(jct, comparison, rhs) ==
    AnyOrNone_CheckFrom(Elements(jct), 1, comparison, rhs)

\* One::CheckAllElements: counts matches, false as soon as there are two.
RECURSIVE One_CheckFrom(_, _, _, _, _)
One_CheckFrom(elems, i, matches, comparison, rhs) ==
    IF i > Len(elems) THEN matches = 1
    ELSE IF compare(Element(elems[i]), rhs, comparison)
         THEN IF matches + 1 > 1 THEN FALSE
              ELSE One_CheckFrom(elems, i + 1, matches + 1, comparison, rhs)
         ELSE One_CheckFrom(elems, i + 1, matches, comparison, rhs)

\* A faulty scan that passes over the repeats of a value.
One_CheckAllElements_Distinct(jct, comparison, rhs) ==
    One_CheckFrom(StdSet(Elements(jct)), 1, 0, comparison, rhs)

One_CheckAllElements(jct, comparison, rhs) ==
    One_CheckFrom(Elements(jct), 1, 0, comparison, rhs)

-----------------------------------------------------------------------------
(* JunctionAll.h: the comparison operators of an All-junction.  Each operator
   is the overload set of the header: the One overload when the right operand
   is a One-junction, the None overload and the general overload of an
   ordered junction, and the general overload of an unordered one. *)

\* A faulty All::operator < whose general overload looks at the first element.
All_Less_ByFirst(jct, rhs) ==
    IF IsOne(rhs) THEN All_CheckAllElements(jct, "Less", rhs)
    ELSE IF jct.Ordered
         THEN IsEmpty(jct) \/ compare(Element(FirstElement(jct)), rhs, "Less")
    ELSE All_CheckAllElements(jct, "Less", rhs)

\* All::operator <
All_Less(jct, rhs) ==
    IF IsOne(rhs) THEN All_CheckAllElements(jct, "Less", rhs)
    ELSE IF jct.Ordered /\ IsNone(rhs)
         THEN IsEmpty(jct) \/ compare(Element(FirstElement(jct)), rhs, "Less")
    ELSE IF jct.Ordered
         THEN IsEmpty(jct) \/ compare(Element(LastElement(jct)), rhs, "Less")
    ELSE All_CheckAllElements(jct, "Less", rhs)

\* A faulty All::operator <= without the overload for a None-junction on the
\* right.
All_LessEq_NoNoneOverload(jct, rhs) ==
    IF IsOne(rhs) THEN All_CheckAllElements(jct, "LessEq", rhs)
    ELSE IF jct.Ordered
         THEN IsEmpty(jct) \/ compare(Element(LastElement(jct)), rhs, "LessEq")
    ELSE All_CheckAllElements(jct, "LessEq", rhs)

\* All::operator <=
All_LessEq(jct, rhs) ==
    IF IsOne(rhs) THEN All_CheckAllElements(jct, "LessEq", rhs)
    ELSE IF jct.Ordered /\ IsNone(rhs)
         THEN IsEmpty(jct) \/ compare(Element(FirstElement(jct)), rhs, "LessEq")
    ELSE IF jct.Ordered
         THEN IsEmpty(jct) \/ compare(Element(LastElement(jct)), rhs, "LessEq")
    ELSE All_CheckAllElements(jct, "LessEq", rhs)

\* A faulty All::operator == that makes a junction on the right the outer
\* quantifier, over the tests of all its own elements against each element
\* of the right junction.
All_Equal_RightOuter(jct, rhs) ==
    IF IsJunction(rhs)
    THEN LET matches == Cardinality({n \in DOMAIN Elements(rhs) :
                            All_CheckAllElements(jct, "Equal", Element(Elements(rhs)[n]))})
         IN  CASE rhs.type = "All"  -> matches = Len(Elements(rhs))
               [] rhs.type = "Any"  -> matches >= 1
               [] rhs.type = "None" -> matches = 0
               [] rhs.type = "One"  -> matches = 1
    ELSE All_CheckAllElements(jct, "Equal", rhs)

\* All::operator ==
All_Equal(jct, rhs) == All_CheckAllElements(jct, "Equal", rhs)

\* A faulty All::operator != that negates what operator == finds.
All_NotEqual_Negated(jct, rhs) == ~All_CheckAllElements(jct, "Equal", rhs)

\* All::operator !=
All_NotEqual(jct, rhs) == All_CheckAllElements(jct, "NotEqual", rhs)

\* A faulty All::operator >= that takes an empty ordered junction for a
\* failure, as Any does.
All_GreaterEq_NonEmpty(jct, rhs) ==
    IF IsOne(rhs) THEN All_CheckAllElements(jct, "GreaterEq", rhs)
    ELSE IF jct.Ordered /\ IsNone(rhs)
         THEN ~IsEmpty(jct) /\ compare(Element(LastElement(jct)), rhs, "GreaterEq")
    ELSE IF jct.Ordered
         THEN ~IsEmpty(jct) /\ compare(Element(FirstElement(jct)), rhs, "GreaterEq")
    ELSE All_CheckAllElements(jct, "GreaterEq", rhs)

\* All::operator >=
All_GreaterEq(jct, rhs) ==
    IF IsOne(rhs) THEN All_CheckAllElements(jct, "GreaterEq", rhs)
    ELSE IF jct.Ordered /\ IsNone(rhs)
         THEN IsEmpty(jct) \/ compare(Element(LastElement(jct)), rhs, "GreaterEq")
    ELSE IF jct.Ordered
         THEN IsEmpty(jct) \/ compare(Element(FirstElement(jct)), rhs, "GreaterEq")
    ELSE All_CheckAllElements(jct, "GreaterEq", rhs)

\* A faulty All::operator > without the overload for a One-junction on the
\* right.
All_Greater_NoOneOverload(jct, rhs) ==
    IF jct.Ordered /\ IsNone(rhs)
    THEN IsEmpty(jct) \/ compare(Element(LastElement(jct)), rhs, "Greater")
    ELSE IF jct.Ordered
         THEN IsEmpty(jct) \/ compare(Element(FirstElement(jct)), rhs, "Greater")
    ELSE All_CheckAllElements(jct, "Greater", rhs)

\* All::operator >
All_Greater(jct, rhs) ==
    IF IsOne(rhs) THEN All_CheckAllElements(jct, "Greater", rhs)
    ELSE IF jct.Ordered /\ IsNone(rhs)
         THEN IsEmpty(jct) \/ compare(Element(LastElement(jct)), rhs, "Greater")
    ELSE IF jct.Ordered
         THEN IsEmpty(jct) \/ compare(Element(FirstElement(jct)), rhs, "Greater")
    ELSE All_CheckAllElements(jct, "Greater", rhs)

-----------------------------------------------------------------------------
(* JunctionAny.h: the comparison operators of AnyOrNone<Store, MustInvert>,
   which is an Any-junction when MustInvert is false and a None-junction when
   it is true. *)

\* A faulty AnyOrNone::operator < whose general overload looks at the last
\* element.
AnyOrNone_Less_ByLast(jct, rhs) ==
    IF IsOne(rhs) THEN Invert(jct, AnyOrNone_CheckAllElements(jct, "Less", rhs))
    ELSE IF jct.Ordered
         THEN Invert(jct, ~IsEmpty(jct) /\ compare(Element(LastElement(jct)), rhs, "Less"))
    ELSE Invert(jct, AnyOrNone_CheckAllElements(jct, "Less", rhs))

\* AnyOrNone::operator <
AnyOrNone_Less(jct, rhs) ==
    IF IsOne(rhs) THEN Invert(jct, AnyOrNone_CheckAllElements(jct, "Less", rhs))
    ELSE IF jct.Ordered /\ IsNone(rhs)
         THEN Invert(jct, ~IsEmpty(jct) /\ compare(Element(LastElement(jct)), rhs, "Less"))
    ELSE IF jct.Ordered
         THEN Invert(jct, ~IsEmpty(jct) /\ compare(Element(FirstElement(jct)), rhs, "Less"))
    ELSE Invert(jct, AnyOrNone_CheckAllElements(jct, "Less", rhs))

\* A faulty AnyOrNone::operator <= without the overload for a None-junction
\* on the right.
AnyOrNone_LessEq_NoNoneOverload(jct, rhs) ==
    IF IsOne(rhs) THEN Invert(jct, AnyOrNone_CheckAllElements(jct, "LessEq", rhs))
    ELSE IF jct.Ordered
         THEN Invert(jct, ~IsEmpty(jct) /\ compare(Element(FirstElement(jct)), rhs, "LessEq"))
    ELSE Invert(jct, AnyOrNone_CheckAllElements(jct, "LessEq", rhs))

\* AnyOrNone::operator <=
AnyOrNone_LessEq(jct, rhs) ==
    IF IsOne(rhs) THEN Invert(jct, AnyOrNone_CheckAllElements(jct, "LessEq", rhs))
    ELSE IF jct.Ordered /\ IsNone(rhs)
         THEN Invert(jct, ~IsEmpty(jct) /\ compare(Element(LastElement(jct)), rhs, "LessEq"))
    ELSE IF jct.Ordered
         THEN Invert(jct, ~IsEmpty(jct) /\ compare(Element(FirstElement(jct)), rhs, "LessEq"))
    ELSE Invert(jct, AnyOrNone_CheckAllElements(jct, "LessEq", rhs))

\* AnyOrNone::operator ==
AnyOrNone_Equal(jct, rhs) == Invert(jct, AnyOrNone_CheckAllElements(jct, "Equal", rhs))

\* AnyOrNone::operator !=
AnyOrNone_NotEqual(jct, rhs) == Invert(jct, AnyOrNone_CheckAllElements(jct, "NotEqual", rhs))

\* A faulty AnyOrNone::operator >= whose general overload looks at the first
\* element.
AnyOrNone_GreaterEq_ByFirst(jct, rhs) ==
    IF IsOne(rhs) THEN Invert(jct, AnyOrNone_CheckAllElements(jct, "GreaterEq", rhs))
    ELSE IF jct.Ordered
         THEN Invert(jct, ~IsEmpty(jct) /\ compare(Element(FirstElement(jct)), rhs, "GreaterEq"))
    ELSE Invert(jct, AnyOrNone_CheckAllElements(jct, "GreaterEq", rhs))

\* AnyOrNone::operator >=
AnyOrNone_GreaterEq(jct, rhs) ==
    IF IsOne(rhs) THEN Invert(jct, AnyOrNone_CheckAllElements(jct, "GreaterEq", rhs))
    ELSE IF jct.Ordered /\ IsNone(rhs)
         THEN Invert(jct, ~IsEmpty(jct) /\ compare(Element(FirstElement(jct)), rhs, "GreaterEq"))
    ELSE IF jct.Ordered
         THEN Invert(jct, ~IsEmpty(jct) /\ compare(Element(LastElement(jct)), rhs, "GreaterEq"))
    ELSE Invert(jct, AnyOrNone_CheckAllElements(jct, "GreaterEq", rhs))

\* A faulty AnyOrNone::operator > without the overload for a None-junction
\* on the right.
AnyOrNone_Greater_NoNoneOverload(jct, rhs) ==
    IF IsOne(rhs) THEN Invert(jct, AnyOrNone_CheckAllElements(jct, "Greater", rhs))
    ELSE IF jct.Ordered
         THEN Invert(jct, ~IsEmpty(jct) /\ compare(Element(LastElement(jct)), rhs, "Greater"))
    ELSE Invert(jct, AnyOrNone_CheckAllElements(jct, "Greater", rhs))

\* AnyOrNone::operator >
AnyOrNone_Greater(jct, rhs) ==
    IF IsOne(rhs) THEN Invert(jct, AnyOrNone_CheckAllElements(jct, "Greater", rhs))
    ELSE IF jct.Ordered /\ IsNone(rhs)
         THEN Invert(jct, ~IsEmpty(jct) /\ compare(Element(FirstElement(jct)), rhs, "Greater"))
    ELSE IF jct.Ordered
         THEN Invert(jct, ~IsEmpty(jct) /\ compare(Element(LastElement(jct)), rhs, "Greater"))
    ELSE Invert(jct, AnyOrNone_CheckAllElements(jct, "Greater", rhs))

-----------------------------------------------------------------------------
(* JunctionOne.h: the comparison operators of a One-junction. *)

\* A faulty One::operator < whose general overload looks at the last and the
\* penultimate element.
One_Less_ByLast(jct, rhs) ==
    IF IsOne(rhs) THEN One_CheckAllElements(jct, "Less", rhs)
    ELSE IF jct.Ordered
         THEN /\ ~IsEmpty(jct)
              /\ compare(Element(LastElement(jct)), rhs, "Less")
              /\ ~(HasSecondElement(jct) /\ compare(Element(PenultimateElement(jct)), rhs, "Less"))
    ELSE One_CheckAllElements(jct, "Less", rhs)

\* One::operator <
One_Less(jct, rhs) ==
    IF IsOne(rhs) THEN One_CheckAllElements(jct, "Less", rhs)
    ELSE IF jct.Ordered /\ IsNone(rhs)
         THEN /\ ~IsEmpty(jct)
              /\ compare(Element(LastElement(jct)), rhs, "Less")
              /\ ~(HasSecondElement(jct) /\ compare(Element(PenultimateElement(jct)), rhs, "Less"))
    ELSE IF jct.Ordered
         THEN /\ ~IsEmpty(jct)
              /\ compare(Element(FirstElement(jct)), rhs, "Less")
              /\ ~(HasSecondElement(jct) /\ compare(Element(SecondElement(jct)), rhs, "Less"))
    ELSE One_CheckAllElements(jct, "Less", rhs)

\* A faulty One::operator <= whose general overload does not look at the
\* second element.
One_LessEq_FirstOnly(jct, rhs) ==
    IF IsOne(rhs) THEN One_CheckAllElements(jct, "LessEq", rhs)
    ELSE IF jct.Ordered /\ IsNone(rhs)
         THEN /\ ~IsEmpty(jct)
              /\ compare(Element(LastElement(jct)), rhs, "LessEq")
              /\ ~(HasSecondElement(jct) /\ compare(Element(PenultimateElement(jct)), rhs, "LessEq"))
    ELSE IF jct.Ordered
         THEN /\ ~IsEmpty(jct)
              /\ compare(Element(FirstElement(jct)), rhs, "LessEq")
    ELSE One_CheckAllElements(jct, "LessEq", rhs)

\* One::operator <=
One_LessEq(jct, rhs) ==
    IF IsOne(rhs) THEN One_CheckAllElements(jct, "LessEq", rhs)
    ELSE IF jct.Ordered /\ IsNone(rhs)
         THEN /\ ~IsEmpty(jct)
              /\ compare(Element(LastElement(jct)), rhs, "LessEq")
              /\ ~(HasSecondElement(jct) /\ compare(Element(PenultimateElement(jct)), rhs, "LessEq"))
    ELSE IF jct.Ordered
         THEN /\ ~IsEmpty(jct)
              /\ compare(Element(FirstElement(jct)), rhs, "LessEq")
              /\ ~(HasSecondElement(jct) /\ compare(Element(SecondElement(jct)), rhs, "LessEq"))
    ELSE One_CheckAllElements(jct, "LessEq", rhs)

\* One::operator ==
One_Equal(jct, rhs) == One_CheckAllElements(jct, "Equal", rhs)

\* One::operator !=
One_NotEqual(jct, rhs) == One_CheckAllElements(jct, "NotEqual", rhs)

\* A faulty One::operator >= without the overload for a None-junction on the
\* right.
One_GreaterEq_NoNoneOverload(jct, rhs) ==
    IF IsOne(rhs) THEN One_CheckAllElements(jct, "GreaterEq", rhs)
    ELSE IF jct.Ordered
         THEN /\ ~IsEmpty(jct)
              /\ compare(Element(LastElement(jct)), rhs, "GreaterEq")
              /\ ~(HasSecondElement(jct) /\ compare(Element(PenultimateElement(jct)), rhs, "GreaterEq"))
    ELSE One_CheckAllElements(jct, "GreaterEq", rhs)

\* One::operator >=
One_GreaterEq(jct, rhs) ==
    IF IsOne(rhs) THEN One_CheckAllElements(jct, "GreaterEq", rhs)
    ELSE IF jct.Ordered /\ IsNone(rhs)
         THEN /\ ~IsEmpty(jct)
              /\ compare(Element(FirstElement(jct)), rhs, "GreaterEq")
              /\ ~(HasSecondElement(jct) /\ compare(Element(SecondElement(jct)), rhs, "GreaterEq"))
    ELSE IF jct.Ordered
         THEN /\ ~IsEmpty(jct)
              /\ compare(Element(LastElement(jct)), rhs, "GreaterEq")
              /\ ~(HasSecondElement(jct) /\ compare(Element(PenultimateElement(jct)), rhs, "GreaterEq"))
    ELSE One_CheckAllElements(jct, "GreaterEq", rhs)

\* A faulty One::operator > whose general overload looks at the second
\* element where it should look at the penultimate one.
One_Greater_BySecond(jct, rhs) ==
    IF IsOne(rhs) THEN One_CheckAllElements(jct, "Greater", rhs)
    ELSE IF jct.Ordered /\ IsNone(rhs)
         THEN /\ ~IsEmpty(jct)
              /\ compare(Element(FirstElement(jct)), rhs, "Greater")
              /\ ~(HasSecondElement(jct) /\ compare(Element(SecondElement(jct)), rhs, "Greater"))
    ELSE IF jct.Ordered
         THEN /\ ~IsEmpty(jct)
              /\ compare(Element(LastElement(jct)), rhs, "Greater")
              /\ ~(HasSecondElement(jct) /\ compare(Element(SecondElement(jct)), rhs, "Greater"))
    ELSE One_CheckAllElements(jct, "Greater", rhs)

\* One::operator >
One_Greater(jct, rhs) ==
    IF IsOne(rhs) THEN One_CheckAllElements(jct, "Greater", rhs)
    ELSE IF jct.Ordered /\ IsNone(rhs)
         THEN /\ ~IsEmpty(jct)
              /\ compare(Element(FirstElement(jct)), rhs, "Greater")
              /\ ~(HasSecondElement(jct) /\ compare(Element(SecondElement(jct)), rhs, "Greater"))
    ELSE IF jct.Ordered
         THEN /\ ~IsEmpty(jct)
              /\ compare(Element(LastElement(jct)), rhs, "Greater")
              /\ ~(HasSecondElement(jct) /\ compare(Element(PenultimateElement(jct)), rhs, "Greater"))
    ELSE One_CheckAllElements(jct, "Greater", rhs)

-----------------------------------------------------------------------------
(* JunctionReverseComparisons.h: v OP j where only j is a junction. *)

\* operator < (V const &v, J const &j)
Reverse_Less(v, jct) == compare(jct, v, "Greater")

\* A faulty reverse operator <= that does not swap the comparison.
Reverse_LessEq_Unswapped(v, jct) == compare(jct, v, "LessEq")

\* operator <= (V const &v, J const &j)
Reverse_LessEq(v, jct) == compare(jct, v, "GreaterEq")

\* operator == (V const &v, J const &j)
Reverse_Equal(v, jct) == compare(jct, v, "Equal")

\* operator != (V const &v, J const &j)
Reverse_NotEqual(v, jct) == compare(jct, v, "NotEqual")

\* operator >= (V const &v, J const &j)
Reverse_GreaterEq(v, jct) == compare(jct, v, "LessEq")

\* operator > (V const &v, J const &j)
Reverse_Greater(v, jct) == compare(jct, v, "Less")

-----------------------------------------------------------------------------
(* The dispatch of a OP b. *)

\* The built-in comparison of two unsigned integers.
BuiltIn(a, b, comparison) ==
    CASE comparison = "Less"      -> a < b
      [] comparison = "LessEq"    -> a <= b
      [] comparison = "Equal"     -> a = b
      [] comparison = "NotEqual"  -> a # b
      [] comparison = "GreaterEq" -> a >= b
      [] comparison = "Greater"   -> a > b

\* The member operator of an All-junction
All_Operator(jct, rhs, comparison) ==
    CASE comparison = "Less"      -> All_Less(jct, rhs)
      [] comparison = "LessEq"    -> All_LessEq(jct, rhs)
      [] comparison = "Equal"     -> All_Equal(jct, rhs)
      [] comparison = "NotEqual"  -> All_NotEqual(jct, rhs)
      [] comparison = "GreaterEq" -> All_GreaterEq(jct, rhs)
      [] comparison = "Greater"   -> All_Greater(jct, rhs)

\* The member operator of an Any- or None-junction
AnyOrNone_Operator(jct, rhs, comparison) ==
    CASE comparison = "Less"      -> AnyOrNone_Less(jct, rhs)
      [] comparison = "LessEq"    -> AnyOrNone_LessEq(jct, rhs)
      [] comparison = "Equal"     -> AnyOrNone_Equal(jct, rhs)
      [] comparison = "NotEqual"  -> AnyOrNone_NotEqual(jct, rhs)
      [] comparison = "GreaterEq" -> AnyOrNone_GreaterEq(jct, rhs)
      [] comparison = "Greater"   -> AnyOrNone_Greater(jct, rhs)

\* The member operator of a One-junction
One_Operator(jct, rhs, comparison) ==
    CASE comparison = "Less"      -> One_Less(jct, rhs)
      [] comparison = "LessEq"    -> One_LessEq(jct, rhs)
      [] comparison = "Equal"     -> One_Equal(jct, rhs)
      [] comparison = "NotEqual"  -> One_NotEqual(jct, rhs)
      [] comparison = "GreaterEq" -> One_GreaterEq(jct, rhs)
      [] comparison = "Greater"   -> One_Greater(jct, rhs)

\* The reverse operator, enabled where only the second operand is a junction
Reverse_Operator(v, jct, comparison) ==
    CASE comparison = "Less"      -> Reverse_Less(v, jct)
      [] comparison = "LessEq"    -> Reverse_LessEq(v, jct)
      [] comparison = "Equal"     -> Reverse_Equal(v, jct)
      [] comparison = "NotEqual"  -> Reverse_NotEqual(v, jct)
      [] comparison = "GreaterEq" -> Reverse_GreaterEq(v, jct)
      [] comparison = "Greater"   -> Reverse_Greater(v, jct)

\* testbed.cpp's compare(a, b, comparison): a OP b
compare(a, b, comparison) ==
    IF IsJunction(a) THEN
        CASE a.type = "All" -> All_Operator(a, b, comparison)
          [] a.type = "One" -> One_Operator(a, b, comparison)
          [] OTHER          -> AnyOrNone_Operator(a, b, comparison)
    ELSE IF IsOnlySecondAJunction(a, b) THEN Reverse_Operator(a, b, comparison)
    ELSE BuiltIn(a.value, b.value, comparison)

-----------------------------------------------------------------------------
(* What the evaluation of a OP b does besides returning a boolean: the
   elements a scan tests and the positional accessors the operators of an
   ordered junction call, each with the assertion it makes. *)

\* OP' with x OP' y = y OP x: what the reverse operators turn OP into.
Mirror(comparison) ==
    CASE comparison = "Less"      -> "Greater"
      [] comparison = "LessEq"    -> "GreaterEq"
      [] comparison = "Equal"     -> "Equal"
      [] comparison = "NotEqual"  -> "NotEqual"
      [] comparison = "GreaterEq" -> "LessEq"
      [] comparison = "Greater"   -> "Less"

\* The operators with overloads for an ordered store.
Relational == {"Less", "LessEq", "GreaterEq", "Greater"}

\* Faulty classes without the overloads for an ordered store.
UsesExtremes_Never(jct, rhs, comparison) == FALSE

\* The overload that looks at the extreme elements is the one selected.
UsesExtremes(jct, rhs, comparison) ==
    jct.Ordered /\ ~IsOne(rhs) /\ comparison \in Relational

\* The accessor All's ordered overloads call: JunctionAll.h, operators <, <=,
\* >= and >, the overload for a None-junction and the general one.
All_Accessor(rhs, comparison) ==
    IF comparison \in {"Less", "LessEq"}
    THEN IF IsNone(rhs) THEN "FirstElement" ELSE "LastElement"
    ELSE IF IsNone(rhs) THEN "LastElement" ELSE "FirstElement"

\* The accessor AnyOrNone's ordered overloads call.
AnyOrNone_Accessor(rhs, comparison) ==
    IF comparison \in {"Less", "LessEq"}
    THEN IF IsNone(rhs) THEN "LastElement" ELSE "FirstElement"
    ELSE IF IsNone(rhs) THEN "FirstElement" ELSE "LastElement"

\* The two accessors One's ordered overloads call, in the order of the calls.
One_Accessors(rhs, comparison) ==
    IF (comparison \in {"Less", "LessEq"}) = IsNone(rhs)
    THEN <<"LastElement", "PenultimateElement">>
    ELSE <<"FirstElement", "SecondElement">>

\* assert(not IsEmpty()) of FirstElement and LastElement,
\* assert(HasSecondElement()) of SecondElement and PenultimateElement
Asserted(accessor, jct) ==
    IF accessor \in {"FirstElement", "LastElement"}
    THEN ~IsEmpty(jct)
    ELSE HasSecondElement(jct)

\* The call of an accessor by its name.
Access(accessor, jct) ==
    CASE accessor = "FirstElement"       -> FirstElement(jct)
      [] accessor = "SecondElement"      -> SecondElement(jct)
      [] accessor = "PenultimateElement" -> PenultimateElement(jct)
      [] accessor = "LastElement"        -> LastElement(jct)

\* The number of elements All::CheckAllElements tests: up to the first that
\* fails.
RECURSIVE All_Tested(_, _, _, _)
All_Tested(elems, i, comparison, rhs) ==
    IF i > Len(elems) THEN Len(elems)
    ELSE IF ~compare(Element(elems[i]), rhs, comparison) THEN i
    ELSE All_Tested(elems, i + 1, comparison, rhs)

\* The number of elements AnyOrNone::CheckAllElements tests: up to the first
\* that passes.
RECURSIVE AnyOrNone_Tested(_, _, _, _)
AnyOrNone_Tested(elems, i, comparison, rhs) ==
    IF i > Len(elems) THEN Len(elems)
    ELSE IF compare(Element(elems[i]), rhs, comparison) THEN i
    ELSE AnyOrNone_Tested(elems, i + 1, comparison, rhs)

\* The number of elements One::CheckAllElements tests: up to the second that
\* passes.
RECURSIVE One_Tested(_, _, _, _, _)
One_Tested(elems, i, matches, comparison, rhs) ==
    IF i > Len(elems) THEN Len(elems)
    ELSE IF compare(Element(elems[i]), rhs, comparison)
         THEN IF matches + 1 > 1 THEN i
              ELSE One_Tested(elems, i + 1, matches + 1, comparison, rhs)
         ELSE One_Tested(elems, i + 1, matches, comparison, rhs)

\* The number of elements the scan of a junction tests.
Tested(jct, rhs, comparison) ==
    CASE jct.type = "All" -> All_Tested(Elements(jct), 1, comparison, rhs)
      [] jct.type = "One" -> One_Tested(Elements(jct), 1, 0, comparison, rhs)
      [] OTHER            -> AnyOrNone_Tested(Elements(jct), 1, comparison, rhs)

RECURSIVE AccessorCalls(_, _, _)

\* X() OP rhs: the call of the accessor X, and the calls OP makes in turn
\* when the assertion of X holds and X returns.
CallThenCompare(accessor, jct, rhs, comparison) ==
    {[accessor |-> accessor, asserted |-> Asserted(accessor, jct)]}
        \cup (IF Asserted(accessor, jct)
              THEN AccessorCalls(Element(Access(accessor, jct)), rhs, comparison)
              ELSE {})

\* A faulty All: X() OP rhs, without the test for an empty store.
All_AccessorCalls_NoEmptyCheck(jct, rhs, comparison) ==
    CallThenCompare(All_Accessor(rhs, comparison), jct, rhs, comparison)

\* All: IsEmpty() or X() OP rhs
All_AccessorCalls(jct, rhs, comparison) ==
    IF IsEmpty(jct) THEN {}
    ELSE CallThenCompare(All_Accessor(rhs, comparison), jct, rhs, comparison)

\* AnyOrNone: not IsEmpty() and X() OP rhs
AnyOrNone_AccessorCalls(jct, rhs, comparison) ==
    IF ~IsEmpty(jct)
    THEN CallThenCompare(AnyOrNone_Accessor(rhs, comparison), jct, rhs, comparison)
    ELSE {}

\* One: not IsEmpty() and X() OP rhs and
\*      not (HasSecondElement() and Y() OP rhs)
One_AccessorCalls(jct, rhs, comparison) ==
    LET X == One_Accessors(rhs, comparison)[1]
        Y == One_Accessors(rhs, comparison)[2]
    IN  IF ~IsEmpty(jct)
        THEN CallThenCompare(X, jct, rhs, comparison)
                 \cup (IF /\ compare(Element(Access(X, jct)), rhs, comparison)
                          /\ HasSecondElement(jct)
                       THEN CallThenCompare(Y, jct, rhs, comparison)
                       ELSE {})
        ELSE {}

\* The accessor calls made while a OP b is evaluated.
AccessorCalls(a, b, comparison) ==
    IF IsJunction(a) THEN
        IF UsesExtremes(a, b, comparison) THEN
            CASE a.type = "All" -> All_AccessorCalls(a, b, comparison)
              [] a.type = "One" -> One_AccessorCalls(a, b, comparison)
              [] OTHER          -> AnyOrNone_AccessorCalls(a, b, comparison)
        ELSE UNION {AccessorCalls(Element(Elements(a)[n]), b, comparison) :
                        n \in 1 .. Tested(a, b, comparison)}
    ELSE IF IsOnlySecondAJunction(a, b) THEN AccessorCalls(b, a, Mirror(comparison))
    ELSE {}

\* The number of its own elements a junction tests against rhs in
\* jct OP rhs, rhs being a constant: those the accessors hand to OP, or those
\* the scan hands to is_match.
Inspected(jct, rhs, comparison) ==
    IF UsesExtremes(jct, rhs, comparison)
    THEN Cardinality(AccessorCalls(jct, rhs, comparison))
    ELSE Tested(jct, rhs, comparison)

-----------------------------------------------------------------------------
(* Junction.h: Map, and the operator () of each junction class. *)

\* The lambdas a caller applies: testbed.cpp bumps every element by one; the
\* others are a constant function and a function that is neither monotonic
\* nor injective.
Lambdas == {"bump", "constant", "distance"}

Call(lambda, n) ==
    CASE lambda = "bump"     -> n + 1
      [] lambda = "constant" -> 1
      [] lambda = "distance" -> IF n > 1 THEN n - 1 ELSE 1 - n

\* A faulty loop that collects the results in a vector: in the order of the
\* source, repeats kept.
MapFrom_Appending(elems, i, lambda, new_elements) ==
    [n \in 1..Len(elems) |-> Call(lambda, elems[n])]

\* The loop of Junction::Map: new_elements.insert(lambda(elem)) for every
\* element in the order Elements() presents them.
RECURSIVE MapFrom(_, _, _, _)
MapFrom(elems, i, lambda, new_elements) ==
    IF i > Len(elems) THEN new_elements
    ELSE MapFrom(elems, i + 1, lambda, SetInsert(new_elements, Call(lambda, elems[i])))

\* A faulty Map whose result, for a source by reference, piggy-backs on the
\* container of the source.
Map_ByReference(subclass, jct, lambda) ==
    IF jct.Ordered
    THEN NewJunction(subclass, JunctionSortedStoreFromSet(MapFrom(Elements(jct), 1, lambda, <<>>)))
    ELSE NewJunction(subclass, JunctionPiggyBackStore(jct.container))

\* Junction::Map<Subclass>: Subclass result(std::move(new_elements))
Map(subclass, jct, lambda) ==
    NewJunction(subclass, JunctionSortedStoreFromSet(MapFrom(Elements(jct), 1, lambda, <<>>)))

\* All::operator (): Result is All<JunctionSortedStore>
All_Apply(jct, lambda) == Map("All", jct, lambda)

\* A faulty AnyOrNone::operator () that returns an Any-junction whatever
\* MustInvert is.
AnyOrNone_Apply_Any(jct, lambda) == Map("Any", jct, lambda)

\* AnyOrNone::operator (): Result is AnyOrNone<JunctionSortedStore, MustInvert>
AnyOrNone_Apply(jct, lambda) == Map(IF MustInvert(jct) THEN "None" ELSE "Any", jct, lambda)

\* One::operator (): Result is One<JunctionSortedStore>
One_Apply(jct, lambda) == Map("One", jct, lambda)

\* junction(lambda)
Apply(jct, lambda) ==
    CASE jct.type = "All" -> All_Apply(jct, lambda)
      [] jct.type = "One" -> One_Apply(jct, lambda)
      [] OTHER            -> AnyOrNone_Apply(jct, lambda)

-----------------------------------------------------------------------------
(* GetJunctionType of each junction class. *)

\* All::GetJunctionType
All_GetJunctionType == "All"

\* AnyOrNone::GetJunctionType: MustInvert? JunctionType::None: JunctionType::All
AnyOrNone_GetJunctionType(jct) == IF MustInvert(jct) THEN "None" ELSE "All"

\* One::GetJunctionType
One_GetJunctionType == "One"

\* J::GetJunctionType() for the class J of a junction
GetJunctionType(jct) ==
    CASE jct.type = "All" -> All_GetJunctionType
      [] jct.type = "One" -> One_GetJunctionType
      [] OTHER            -> AnyOrNone_GetJunctionType(jct)

-----------------------------------------------------------------------------
(* The helper functions that create junctions (all, any, none, one and their
   _ref and _copy forms), the same for the four types. *)

\* x_ref(ilist) / x_ref(container): piggy-back on the caller's container
Junction_ref(type, name) == NewJunction(type, JunctionPiggyBackStore(name))

\* x_copy(ilist) / x_copy(container): copy into a std::set
Junction_copy(type, container) == NewJunction(type, JunctionSortedStore(container))

\* A faulty x(ilist &&) / x(Container &&) that calls x_ref.
Junction_rvalue_ByReference(type, container) == Junction_ref(type, "abc")

\* x(ilist &&) / x(Container &&): a temporary is copied
Junction_rvalue(type, container) == Junction_copy(type, container)

\* x(ilist &) / x(Container &) / x(Container const &): a named container is
\* piggy-backed
Junction_lvalue(type, name) == Junction_ref(type, name)

\* x(begin, end): a pair of iterators is copied
Junction_iterators(type, range) == NewJunction(type, JunctionSortedStore(range))

\* x(std::set &&): the temporary set becomes the store
Junction_set(type, set) == NewJunction(type, JunctionSortedStoreFromSet(set))

-----------------------------------------------------------------------------
(* Which overload of the default function x (all, any, none, one) a call
   x(source) selects.  A source is a braced list, or an initializer list, a
   vector or a set that is named (an lvalue) or temporary (an rvalue), const
   or not. *)

SourceKinds == {"initializer_list", "vector", "set"}

Sources ==
    {s \in [kind : SourceKinds, form : {"braces", "lvalue", "rvalue"}, const : BOOLEAN] :
        s.form = "braces" => (s.kind = "initializer_list" /\ ~s.const)}

IteratorSource == [kind |-> "iterators", form |-> "rvalue", const |-> FALSE]

Functions == {"x", "x_ref", "x_copy"}

\* The one-argument overloads of x; JunctionOne.h has one more than the
\* other headers.
Overloads(type) ==
    {"ilist &&", "ilist &", "Container &&", "Container &", "Container const &", "set &&"}
        \cup (IF type = "One" THEN {"ilist const &"} ELSE {})

\* Template argument deduction succeeds and the reference can bind.
Viable(overload, source) ==
    CASE overload = "ilist &&" ->
             source.kind = "initializer_list" /\ source.form # "lvalue" /\ ~source.const
      [] overload = "ilist &" ->
             source.kind = "initializer_list" /\ source.form = "lvalue" /\ ~source.const
      [] overload = "ilist const &" -> source.kind = "initializer_list"
      [] overload = "set &&" ->
             source.kind = "set" /\ source.form = "rvalue" /\ ~source.const
      [] overload = "Container &&" -> source.form # "braces"
      [] overload = "Container &" ->
             source.form = "lvalue" \/ (source.form = "rvalue" /\ source.const)
      [] overload = "Container const &" -> source.form # "braces"

\* The overload binds an rvalue reference to an rvalue.
BindsRvalueReference(overload, source) ==
    source.form # "lvalue" /\ overload \in {"ilist &&", "Container &&", "set &&"}

\* The overload's reference refers to a more cv-qualified type than the source.
AddsConst(overload, source) ==
    ~source.const /\ overload \in {"ilist const &", "Container const &"}

\* Partial ordering of the function templates: a parameter that names
\* std::initializer_list or std::set is more specialized than Container, and
\* T const & is more specialized than T &, which is more specialized than T &&.
Specialization(overload) ==
    (IF overload \in {"Container &&", "Container &", "Container const &"} THEN 0 ELSE 10)
    + (CASE overload \in {"ilist const &", "Container const &"} -> 3
         [] overload \in {"ilist &", "Container &"}             -> 2
         [] OTHER                                               -> 1)

\* Overload a is a better match for the source than overload b.
Better(a, b, source) ==
    IF BindsRvalueReference(a, source) # BindsRvalueReference(b, source)
    THEN BindsRvalueReference(a, source)
    ELSE IF AddsConst(a, source) # AddsConst(b, source)
    THEN AddsConst(b, source)
    ELSE Specialization(a) > Specialization(b)

\* The overload the call x(source) selects.
Selected(type, source) ==
    LET viable == {o \in Overloads(type) : Viable(o, source)}
    IN  CHOOSE a \in viable : \A b \in viable \ {a} : Better(a, b, source)

\* x(source), where the source is the container abc
Junction_default(type, source) ==
    LET overload == Selected(type, source)
    IN  CASE overload \in {"ilist &&", "Container &&"} -> Junction_rvalue(type, abc)
          [] overload = "set &&"                       -> Junction_set(type, abc)
          [] OTHER                                     -> Junction_lvalue(type, "abc")

-----------------------------------------------------------------------------
(* The state machine. *)

Init ==
    /\ abc \in LeftContainers
    /\ def = <<>>
    /\ j = NoJunction
    /\ k = NoJunction
    /\ res = NoResult

\* auto j = x_ref(abc)
Ref(type) ==
    /\ j = NoJunction
    /\ j' = Junction_ref(type, "abc")
    /\ UNCHANGED <<abc, def, k, res>>

\* auto j = x_copy(abc)
Copy(type) ==
    /\ j = NoJunction
    /\ j' = Junction_copy(type, abc)
    /\ UNCHANGED <<abc, def, k, res>>

\* auto j = x(std::move(abc)), or x({...}) with the contents of abc
Temporary(type) ==
    /\ j = NoJunction
    /\ j' = Junction_rvalue(type, abc)
    /\ UNCHANGED <<abc, def, k, res>>

\* auto j = x(abc)
Named(type) ==
    /\ j = NoJunction
    /\ j' = Junction_lvalue(type, "abc")
    /\ UNCHANGED <<abc, def, k, res>>

\* auto j = x(abc.begin(), abc.end())
IteratorPair(type) ==
    /\ j = NoJunction
    /\ j' = Junction_iterators(type, abc)
    /\ UNCHANGED <<abc, def, k, res>>

\* auto j = x(std::move(abc)) where abc is a std::set
MoveSet(type) ==
    /\ j = NoJunction
    /\ IsStdSet(abc)
    /\ j' = Junction_set(type, abc)
    /\ UNCHANGED <<abc, def, k, res>>

\* compare_untouched_against_constant: every comparison of j with the
\* constant d, in both operand orders.
CompareUntouched(d) ==
    /\ j # NoJunction
    /\ res = NoResult
    /\ res' = [form     |-> "untouched",
               d        |-> d,
               direct   |-> [c \in Comparisons |-> compare(j, Element(d), c)],
               reversed |-> [c \in Comparisons |-> compare(Element(d), j, c)]]
    /\ UNCHANGED <<abc, def, j, k>>

\* compare_bumped_against_constant: apply a lambda to j, then compare the
\* junction it returns with the constant d, in both operand orders.
CompareBumped(lambda, d) ==
    /\ j # NoJunction
    /\ res = NoResult
    /\ LET junction == Apply(j, lambda)
       IN  res' = [form     |-> "bumped",
                   lambda   |-> lambda,
                   junction |-> junction,
                   d        |-> d,
                   direct   |-> [c \in Comparisons |-> compare(junction, Element(d), c)],
                   reversed |-> [c \in Comparisons |-> compare(Element(d), junction, c)]]
    /\ UNCHANGED <<abc, def, j, k>>

\* check_x_to_y: build the right junction k over the container def, by copy
\* or by reference, and compare j with k every way.
CompareJunctions(type, ordered, container) ==
    /\ j # NoJunction
    /\ res = NoResult
    /\ UNCHANGED <<abc, j>>
    /\ def' = container
    /\ k' = IF ordered THEN Junction_rvalue(type, container) ELSE Junction_ref(type, "def")
    /\ res' = [form   |-> "junctions",
               direct |-> [c \in Comparisons |-> compare(j, k, c)]']

\* Junction::GetJunctionType(), as check() prints it in a failure message.
ReportType ==
    /\ j # NoJunction
    /\ res = NoResult
    /\ res' = [form |-> "type", reported |-> GetJunctionType(j)]
    /\ UNCHANGED <<abc, def, j, k>>

\* auto j = function(source), with the container abc as the source.
Construct(type, function, source) ==
    /\ j = NoJunction
    /\ res = NoResult
    /\ source.kind = "set" => IsStdSet(abc)
    /\ j' = CASE function = "x_ref"  -> Junction_ref(type, "abc")
              [] function = "x_copy" -> Junction_copy(type, abc)
              [] function = "x"      -> Junction_default(type, source)
    /\ res' = [form |-> "constructed", function |-> function, source |-> source]
    /\ UNCHANGED <<abc, def, k>>

\* auto j = x(abc.begin(), abc.end())
ConstructFromIterators(type) ==
    /\ j = NoJunction
    /\ res = NoResult
    /\ j' = Junction_iterators(type, abc)
    /\ res' = [form |-> "constructed", function |-> "x", source |-> IteratorSource]
    /\ UNCHANGED <<abc, def, k>>

\* check_creation_types
NextCreation ==
    \/ \E type \in JunctionTypes, function \in Functions, source \in Sources :
           Construct(type, function, source)
    \/ \E type \in JunctionTypes : ConstructFromIterators(type)

SpecCreation == Init /\ [][NextCreation]_vars

\* The helper functions, for each of the four junction types.
Create ==
    \E type \in JunctionTypes :
        \/ Ref(type)
        \/ Copy(type)
        \/ Temporary(type)
        \/ Named(type)
        \/ IteratorPair(type)
        \/ MoveSet(type)

\* The forms check_x_to_every_junction_type builds its left junction with.
CreateRefOrCopy ==
    \E type \in JunctionTypes :
        \/ Ref(type)
        \/ Copy(type)

\* compare_against_constant, untouched and bumped
AgainstConstant ==
    /\ res = NoResult
    /\ \/ \E d \in AllConstants : CompareUntouched(d)
       \/ \E lambda \in Lambdas, d \in AllConstants : CompareBumped(lambda, d)

\* check_x_to_everything
AgainstJunction ==
    /\ res = NoResult
    /\ \E type \in JunctionTypes, ordered \in BOOLEAN, container \in RightContainers :
           CompareJunctions(type, ordered, container)

\* Junctions against constants: compare_junctions_with_constants.
Next ==
    \/ Create
    \/ AgainstConstant
    \/ ReportType

Spec == Init /\ [][Next]_vars

\* Junctions against junctions and against constants:
\* compare_junctions_with_junctions, with the untouched comparisons against
\* a constant beside it.
NextJunctions ==
    \/ CreateRefOrCopy
    \/ res = NoResult /\ \E d \in AllConstants : CompareUntouched(d)
    \/ AgainstJunction

SpecJunctions == Init /\ [][NextJunctions]_vars

\* The right junction built over a std::set: every element once, ascending.
RightSets == Sets \cup SampleRightContainers

\* check_x_to_everything, with the right junction k over a std::set
AgainstJunctionOverSet ==
    /\ res = NoResult
    /\ \E type \in JunctionTypes, ordered \in BOOLEAN, container \in RightSets :
           CompareJunctions(type, ordered, container)

\* Junctions against constants and against junctions over sets.
NextOverSets ==
    \/ CreateRefOrCopy
    \/ res = NoResult /\ \E d \in AllConstants : CompareUntouched(d)
    \/ AgainstJunctionOverSet

SpecOverSets == Init /\ [][NextOverSets]_vars

\* check_x_to_one: the right junction k is a One-junction
AgainstOne ==
    /\ res = NoResult
    /\ \E ordered \in BOOLEAN, container \in RightContainers :
           CompareJunctions("One", ordered, container)

\* Junctions against One-junctions.
NextAgainstOne ==
    \/ CreateRefOrCopy
    \/ AgainstOne

SpecAgainstOne == Init /\ [][NextAgainstOne]_vars

-----------------------------------------------------------------------------
(* A call of a positional accessor of the ordered store, whether its
   assertion holds or not.  assert is the macro of <cassert>: it ends the
   program when its condition is false, unless the translation unit is
   compiled with NDEBUG, which makes it expand to nothing.  Then the accessor
   goes on to dereference begin() or rbegin() of an empty set, or an iterator
   moved past the only element, which is undefined: it may return anything,
   or end the program. *)

Accessors == {"FirstElement", "SecondElement", "PenultimateElement", "LastElement"}

\* What a call may end in when its behaviour is undefined.
Undefined ==
    {[kind |-> "returned", value |-> v] : v \in Values} \cup {[kind |-> "crashed"]}

\* A faulty accessor that returns a value when its assertion fails.
Outcomes_NeverAborting(accessor, jct, ndebug) ==
    IF Asserted(accessor, jct)
    THEN {[kind |-> "returned", value |-> Access(accessor, jct)]}
    ELSE {[kind |-> "returned", value |-> 0]}

\* What a call of the accessor may end in.
Outcomes(accessor, jct, ndebug) ==
    IF Asserted(accessor, jct)
    THEN {[kind |-> "returned", value |-> Access(accessor, jct)]}
    ELSE IF ~ndebug
         THEN {[kind |-> "assertion failed"]}
         ELSE Undefined

\* A member function of a junction class calls the accessor on its store.
CallAccessor(accessor, ndebug) ==
    /\ j # NoJunction
    /\ j.Ordered
    /\ res = NoResult
    /\ \E outcome \in Outcomes(accessor, j, ndebug) :
           res' = [form     |-> "accessor",
                   accessor |-> accessor,
                   NDEBUG   |-> ndebug,
                   junction |-> j,
                   elements |-> Elements(j),
                   outcome  |-> outcome]
    /\ UNCHANGED <<abc, def, j, k>>

NextAccessors ==
    \/ Create
    \/ \E accessor \in Accessors, ndebug \in BOOLEAN : CallAccessor(accessor, ndebug)

SpecAccessors == Init /\ [][NextAccessors]_vars

-----------------------------------------------------------------------------
(* The caller changes the named container after a junction was built over
   it, as in the comment on memory management of JunctionAny.h:
       assert(not(13 == any_low_fib));
       low_fibonacci.push_back(13);
       assert(13 == any_low_fib);                                          *)

\* The value the comment appends, beside the values of the model.
AppendedValues == Values \cup {13}
AliasingConstants == AllConstants \cup {13}

\* What the caller keeps of the comparison made before the change.
Changed ==
    [form |-> "changed", d |-> res.d, was |-> abc, before |-> res.direct]

\* abc.push_back(e)
PushBack(e) ==
    /\ res.form = "untouched"
    /\ abc' = Append(abc, e)
    /\ res' = Changed
    /\ UNCHANGED <<def, j, k>>

\* abc.pop_back()
PopBack ==
    /\ res.form = "untouched"
    /\ abc # <<>>
    /\ abc' = SubSeq(abc, 1, Len(abc) - 1)
    /\ res' = Changed
    /\ UNCHANGED <<def, j, k>>

\* abc.clear()
Clear ==
    /\ res.form = "untouched"
    /\ abc # <<>>
    /\ abc' = <<>>
    /\ res' = Changed
    /\ UNCHANGED <<def, j, k>>

\* The same comparisons of the same junction with the same constant, made
\* again after the change.
CompareAgain ==
    /\ res.form = "changed"
    /\ res' = [form   |-> "again",
               d      |-> res.d,
               was    |-> res.was,
               before |-> res.before,
               direct |-> [c \in Comparisons |-> compare(j, Element(res.d), c)]]
    /\ UNCHANGED <<abc, def, j, k>>

\* A change of the container between two comparisons.
Change ==
    \/ \E e \in AppendedValues : PushBack(e)
    \/ PopBack
    \/ Clear

NextAliasing ==
    \/ CreateRefOrCopy
    \/ res = NoResult /\ \E d \in AliasingConstants : CompareUntouched(d)
    \/ Change
    \/ CompareAgain

SpecAliasing == Init /\ [][NextAliasing]_vars

-----------------------------------------------------------------------------
(* A junction in use: compared with a constant straight after construction,
   then compared and transformed some more, and after each use compared with
   that constant again.  The operators and Map are const member functions,
   and a store has no mutable member. *)

\* A faulty Map that inserts lambda(elem) into the elements of the junction
\* itself.
Map_This_InPlace(jct, lambda) ==
    IF jct.Ordered
    THEN [jct EXCEPT !.elements = MapFrom(Elements(jct), 1, lambda, jct.elements)]
    ELSE jct

\* *this after Map: the loop inserts into the local new_elements.
Map_This(jct, lambda) == jct

\* *this after a comparison operator, a const member function.
Operator_This(jct) == jct

\* The junction has been compared with res.d and may be used further.
InUse == res.form \in {"untouched", "used"}

\* The record of a use and of what it returned: the results of the first
\* comparison are kept, and the junction, as it is after the use, is compared
\* with res.d again.
Used(use, direct, reversed) ==
    [form     |-> "used",
     d        |-> res.d,
     first    |-> IF res.form = "untouched"
                  THEN [direct |-> res.direct, reversed |-> res.reversed]
                  ELSE res.first,
     use      |-> use,
     returned |-> [direct |-> direct, reversed |-> reversed],
     direct   |-> [c \in Comparisons |-> compare(j', Element(res.d), c)],
     reversed |-> [c \in Comparisons |-> compare(Element(res.d), j', c)]]

\* j OP e and e OP j, for every OP
UseAgainstConstant(e) ==
    /\ InUse
    /\ UNCHANGED <<abc, def, k>>
    /\ j' = Operator_This(j)
    /\ res' = Used("constant",
                   [c \in Comparisons |-> compare(j, Element(e), c)],
                   [c \in Comparisons |-> compare(Element(e), j, c)])

\* auto const k = x({...}), then j OP k and k OP j, for every OP
UseAgainstNewJunction(type, container) ==
    /\ InUse
    /\ k = NoJunction
    /\ UNCHANGED abc
    /\ def' = container
    /\ k' = Junction_rvalue(type, container)
    /\ j' = Operator_This(j)
    /\ res' = Used("new junction",
                   [c \in Comparisons |-> compare(j, k, c)]',
                   [c \in Comparisons |-> compare(k, j, c)]')

\* j OP k and k OP j, for every OP
UseAgainstJunction ==
    /\ InUse
    /\ k # NoJunction
    /\ UNCHANGED <<abc, def>>
    /\ j' = Operator_This(j)
    /\ k' = Operator_This(k)
    /\ res' = Used("junction",
                   [c \in Comparisons |-> compare(j, k, c)],
                   [c \in Comparisons |-> compare(k, j, c)])

\* j(lambda) OP d and d OP j(lambda), for every OP
UseTransform(lambda) ==
    /\ InUse
    /\ UNCHANGED <<abc, def, k>>
    /\ j' = Map_This(j, lambda)
    /\ res' = Used("transform",
                   [c \in Comparisons |-> compare(Apply(j, lambda), Element(res.d), c)],
                   [c \in Comparisons |-> compare(Element(res.d), Apply(j, lambda), c)])

NextInUse ==
    \/ CreateRefOrCopy
    \/ res = NoResult /\ \E d \in AllConstants : CompareUntouched(d)
    \/ \E e \in SampleConstants : UseAgainstConstant(e)
    \/ \E type \in JunctionTypes, container \in SampleRightContainers :
           UseAgainstNewJunction(type, container)
    \/ UseAgainstJunction
    \/ \E lambda \in Lambdas : UseTransform(lambda)

SpecInUse == Init /\ [][NextInUse]_vars

-----------------------------------------------------------------------------
(* A junction and its transform: j2 = j(lambda) is kept in k, both are
   compared with a constant, the container of j is changed, and both are
   compared with that constant again. *)

\* Every comparison of a junction with the constant d.
Compared(jct, d) == [c \in Comparisons |-> compare(jct, Element(d), c)]

\* auto const j2 = j(lambda), and the comparisons of j and of j2 with d
Transform(lambda, d) ==
    /\ j # NoJunction
    /\ res = NoResult
    /\ UNCHANGED <<abc, def>>
    /\ j' = Map_This(j, lambda)
    /\ k' = Apply(j, lambda)
    /\ res' = [form   |-> "transformed",
               lambda |-> lambda,
               d      |-> d,
               was    |-> abc,
               source |-> j,
               before |-> [j |-> Compared(j, d), j2 |-> Compared(Apply(j, lambda), d)]]

\* abc.push_back(e), abc.pop_back() or abc.clear(), once j2 exists
ChangeSource ==
    /\ res.form = "transformed"
    /\ \/ \E e \in AppendedValues : abc' = Append(abc, e)
       \/ abc # <<>> /\ abc' = SubSeq(abc, 1, Len(abc) - 1)
       \/ abc # <<>> /\ abc' = <<>>
    /\ res' = [res EXCEPT !.form = "source changed"]
    /\ UNCHANGED <<def, j, k>>

\* The comparisons of j and of j2 with the same constant, after the change.
CompareBoth ==
    /\ res.form = "source changed"
    /\ UNCHANGED <<abc, def, j, k>>
    /\ res' = [form   |-> "both",
               lambda |-> res.lambda,
               d      |-> res.d,
               was    |-> res.was,
               source |-> res.source,
               before |-> res.before,
               after  |-> [j |-> Compared(j, res.d), j2 |-> Compared(k, res.d)]]

NextTransformed ==
    \/ CreateRefOrCopy
    \/ \E lambda \in Lambdas, d \in AliasingConstants : Transform(lambda, d)
    \/ ChangeSource
    \/ CompareBoth

SpecTransformed == Init /\ [][NextTransformed]_vars

-----------------------------------------------------------------------------
(* Threads that evaluate comparisons on one junction at the same time.  An
   operator is a const member function that reads the store and keeps what
   it needs (the loop's iterator, One's matches) in automatic variables; a
   step of a thread is one inspection of the store. *)

Threads == {"first_thread", "second_thread"}

\* Containers the shared junction is built over.
SharedContainers == SampleContainers \cup {<<>>, <<2, 1>>}

InitShared ==
    /\ abc \in SharedContainers
    /\ def = <<>>
    /\ j = NoJunction
    /\ k = NoJunction
    /\ res = NoResult

\* The automatic variables of a thread about to evaluate j OP d.
Begin(jct, d, comparison) ==
    [pc      |-> IF UsesExtremes(jct, Element(d), comparison) THEN "IsEmpty" ELSE "loop",
     i       |-> 1,
     matches |-> 0,
     result  |-> FALSE]

\* return result
Return(th, result) == [th EXCEPT !.pc = "done", !.result = result]

\* A step of an operator of All.
All_Step(jct, d, comparison, th) ==
    LET is_match(elem) == compare(Element(elem), Element(d), comparison)
    IN  CASE th.pc = "IsEmpty" ->
                 IF IsEmpty(jct) THEN Return(th, TRUE) ELSE [th EXCEPT !.pc = "X"]
          [] th.pc = "X" ->
                 Return(th, is_match(Access(All_Accessor(Element(d), comparison), jct)))
          [] th.pc = "loop" ->
                 IF th.i > Len(Elements(jct)) THEN Return(th, TRUE)
                 ELSE IF ~is_match(Elements(jct)[th.i]) THEN Return(th, FALSE)
                 ELSE [th EXCEPT !.i = @ + 1]

\* A step of an operator of AnyOrNone.
AnyOrNone_Step(jct, d, comparison, th) ==
    LET is_match(elem) == compare(Element(elem), Element(d), comparison)
    IN  CASE th.pc = "IsEmpty" ->
                 IF ~IsEmpty(jct) THEN [th EXCEPT !.pc = "X"]
                 ELSE Return(th, Invert(jct, FALSE))
          [] th.pc = "X" ->
                 Return(th, Invert(jct, is_match(Access(AnyOrNone_Accessor(Element(d), comparison), jct))))
          [] th.pc = "loop" ->
                 IF th.i > Len(Elements(jct)) THEN Return(th, Invert(jct, FALSE))
                 ELSE IF is_match(Elements(jct)[th.i]) THEN Return(th, Invert(jct, TRUE))
                 ELSE [th EXCEPT !.i = @ + 1]

\* A step of an operator of One.
One_Step(jct, d, comparison, th) ==
    LET is_match(elem) == compare(Element(elem), Element(d), comparison)
        X == One_Accessors(Element(d), comparison)[1]
        Y == One_Accessors(Element(d), comparison)[2]
    IN  CASE th.pc = "IsEmpty" ->
                 IF ~IsEmpty(jct) THEN [th EXCEPT !.pc = "X"] ELSE Return(th, FALSE)
          [] th.pc = "X" ->
                 IF ~is_match(Access(X, jct)) THEN Return(th, FALSE)
                 ELSE IF HasSecondElement(jct) THEN [th EXCEPT !.pc = "Y"]
                 ELSE Return(th, TRUE)
          [] th.pc = "Y" ->
                 Return(th, ~is_match(Access(Y, jct)))
          [] th.pc = "loop" ->
                 IF th.i > Len(Elements(jct)) THEN Return(th, th.matches = 1)
                 ELSE IF is_match(Elements(jct)[th.i])
                      THEN IF th.matches + 1 > 1
                           THEN Return([th EXCEPT !.matches = @ + 1], FALSE)
                           ELSE [th EXCEPT !.i = @ + 1, !.matches = @ + 1]
                      ELSE [th EXCEPT !.i = @ + 1]

\* A step of the operator of the junction's class.
Step(jct, d, comparison, th) ==
    CASE jct.type = "All" -> All_Step(jct, d, comparison, th)
      [] jct.type = "One" -> One_Step(jct, d, comparison, th)
      [] OTHER            -> AnyOrNone_Step(jct, d, comparison, th)

\* Faulty automatic variables: one set of them for all the threads.
Automatic_Static(t) == res.threads[CHOOSE u \in Threads : TRUE]

\* The automatic variables of a thread.
Automatic(t) == res.threads[t]

\* The threads are started, each to evaluate j OP d with an OP of its own.
StartThreads(comparison, d) ==
    /\ j # NoJunction
    /\ res = NoResult
    /\ res' = [form       |-> "threads",
               d          |-> d,
               comparison |-> comparison,
               junction   |-> j,
               elements   |-> Elements(j),
               threads    |-> [t \in Threads |-> Begin(j, d, comparison[t])]]
    /\ UNCHANGED <<abc, def, j, k>>

\* A thread that has not returned takes its next step.
Inspect(t) ==
    /\ res.form = "threads"
    /\ Automatic(t).pc # "done"
    /\ res' = [res EXCEPT !.threads[t] = Step(j, res.d, res.comparison[t], Automatic(t))]
    /\ UNCHANGED <<abc, def, j, k>>

NextShared ==
    \/ CreateRefOrCopy
    \/ \E comparison \in [Threads -> Comparisons], d \in AllConstants :
           StartThreads(comparison, d)
    \/ \E t \in Threads : Inspect(t)

SpecShared == InitShared /\ [][NextShared]_vars

-----------------------------------------------------------------------------
(* The documented meaning of a junction, against which the results of the
   operators are checked. *)

\* A container without a repeated value.
NoRepeats(container) ==
    \A m, n \in DOMAIN container : container[m] = container[n] => m = n

\* The values of a container.
Range(container) == {container[n] : n \in DOMAIN container}

\* The collapse rule of a junction type over the members of S under the
\* test P: All wants every member to pass, Any at least one, None not one,
\* One exactly one.
Collapse(type, S, P(_)) ==
    LET matches == Cardinality({s \in S : P(s)})
    IN  CASE type = "All"  -> matches = Cardinality(S)
          [] type = "Any"  -> matches >= 1
          [] type = "None" -> matches = 0
          [] type = "One"  -> matches = 1

\* The operand j was compared with.
Operand == IF res.form = "junctions" THEN k ELSE Element(res.d)

-----------------------------------------------------------------------------
(* C1: all(C) OP x is true iff every element of C satisfies e OP x, and
   any(C) OP x is true iff at least one element of C does, for each of the
   six operators and on either backend. *)
C1_AllAndAnyAgainstScalar ==
    (res.form = "untouched" /\ j.type \in {"All", "Any"}) =>
        \A c \in Comparisons :
            res.direct[c] =
                IF j.type = "All"
                THEN \A n \in DOMAIN abc : BuiltIn(abc[n], res.d, c)
                ELSE \E n \in DOMAIN abc : BuiltIn(abc[n], res.d, c)

\* An unordered All-junction over two different values of which only one is
\* below the constant, and an ordered Any-junction likewise.
C1_Witness ==
    /\ res.form = "untouched"
    /\ j.type = "All"
    /\ ~j.Ordered
    /\ abc = <<2, 0>>
    /\ res.d = 1
    /\ ~res.direct["Less"]
    /\ res.direct["NotEqual"]

(* C2: over a collection of pairwise distinct elements, one(C) OP x is true
   iff exactly one element of C satisfies e OP x, on either backend; so
   one({1,2,3,4}) == 4 and one({1,2,3,4}) > 3 are true and one({1,2,3,4}) > 2
   is false. *)
C2_OneAgainstScalar ==
    (res.form = "untouched" /\ j.type = "One" /\ NoRepeats(abc)) =>
        /\ \A c \in Comparisons :
               res.direct[c] =
                   (Cardinality({n \in DOMAIN abc : BuiltIn(abc[n], res.d, c)}) = 1)
        /\ abc = <<1, 2, 3, 4>> =>
               /\ res.d = 4 => res.direct["Equal"]
               /\ res.d = 3 => res.direct["Greater"]
               /\ res.d = 2 => ~res.direct["Greater"]

\* one({1,2,3,4}) > 2 on the ordered backend: two elements qualify.
C2_Witness ==
    /\ res.form = "untouched"
    /\ j.type = "One"
    /\ j.Ordered
    /\ abc = <<1, 2, 3, 4>>
    /\ res.d = 2
    /\ ~res.direct["Greater"]
    /\ res.direct["Equal"]

(* C3: none(C) OP x is the negation of any(C) OP x, for each of the six
   operators, for a scalar x and for a junction x of any type, on either
   backend. *)
C3_NoneIsNotAny ==
    (res.form \in {"untouched", "junctions"} /\ j.type = "None") =>
        LET any == [j EXCEPT !.type = "Any"]
        IN  \A c \in Comparisons : res.direct[c] = ~compare(any, Operand, c)

\* An ordered None-junction compared with a One-junction, where any(C) <= x
\* holds and none(C) <= x does not, and any(C) < x fails and none(C) < x holds.
C3_Witness ==
    /\ res.form = "junctions"
    /\ j.type = "None"
    /\ j.Ordered
    /\ k.type = "One"
    /\ abc = <<0, 2>>
    /\ def = <<1, 2>>
    /\ ~res.direct["LessEq"]
    /\ res.direct["Less"]

(* C4: over an empty collection, in every construction mode, all six
   comparisons with a scalar, in both operand orders, are true for All and
   None and false for Any and One. *)
C4_VacuousTruth ==
    (res.form = "untouched" /\ abc = <<>>) =>
        \A c \in Comparisons :
            /\ res.direct[c] = (j.type \in {"All", "None"})
            /\ res.reversed[c] = (j.type \in {"All", "None"})

\* An empty One-junction made from a moved set, compared with a constant.
C4_Witness ==
    /\ res.form = "untouched"
    /\ abc = <<>>
    /\ j.type = "One"
    /\ j.Ordered
    /\ j.moved
    /\ ~res.direct["NotEqual"]
    /\ ~res.reversed["Less"]

(* C5: V(L) OP W(R) is V's collapse rule over the elements l of L applied to
   "W's condition holds of the number of elements r of R with l OP r", for
   every pair of types, every operator and both backends on the left, where
   a collection under a One-junction holds no value twice. *)
C5_JunctionAgainstJunction ==
    (/\ res.form = "junctions"
     /\ j.type = "One" => NoRepeats(abc)
     /\ k.type = "One" => NoRepeats(def)) =>
        \A c \in Comparisons :
            res.direct[c] =
                Collapse(j.type, DOMAIN abc,
                    LAMBDA m : Collapse(k.type, DOMAIN def,
                                   LAMBDA n : BuiltIn(abc[m], def[n], c)))

\* An ordered One-junction against an unordered None-junction: exactly one
\* left element is below no right element.
C5_Witness ==
    /\ res.form = "junctions"
    /\ j.type = "One"
    /\ j.Ordered
    /\ k.type = "None"
    /\ ~k.Ordered
    /\ abc = <<1, 2>>
    /\ def = <<2, 0>>
    /\ res.direct["Less"]
    /\ ~res.direct["NotEqual"]

\* all({2,3,4}) and any({1,5,9}) have been compared, on any backend.
C6_Case ==
    /\ res.form = "junctions"
    /\ j.type = "All"
    /\ k.type = "Any"
    /\ abc = <<2, 3, 4>>
    /\ def = <<1, 5, 9>>

(* C6: all({2,3,4}) > any({1,5,9}) evaluates to true: each of 2, 3 and 4
   exceeds the right element 1. *)
C6_AllGreaterThanAnyIsTrue == C6_Case => res.direct["Greater"]

\* The comparison as the documentation writes it: both junctions copied.
C6_Witness == C6_Case /\ j.Ordered /\ k.Ordered /\ res.direct["Greater"]

\* C6 as documented: all({2,3,4}) > any({1,5,9}) evaluates to false.
C6_AllGreaterThanAnyIsFalse == C6_Case => ~res.direct["Greater"]

\* The junction of j's type over the same container on the other backend.
OtherBackend ==
    IF j.Ordered THEN Junction_ref(j.type, "abc") ELSE Junction_copy(j.type, abc)

(* C7: a junction over a collection C on the ordered backend and one on the
   unordered backend return the same result for every operator and every
   right-hand operand, scalar or junction: for All, Any and None whatever C
   holds, for One where C holds no value twice. *)
C7_OrderedUnorderedEquivalence ==
    (/\ res.form \in {"untouched", "junctions"}
     /\ j.type = "One" => NoRepeats(abc)) =>
        \A c \in Comparisons : res.direct[c] = compare(OtherBackend, Operand, c)

\* An unordered All-junction over a container with a repeated value,
\* compared with a None-junction.
C7_Witness ==
    /\ res.form = "junctions"
    /\ j.type = "All"
    /\ ~j.Ordered
    /\ abc = <<1, 1>>
    /\ k.type = "None"
    /\ def = <<0, 2>>
    /\ res.direct["Equal"]
    /\ ~res.direct["Less"]

\* C7 as documented: the same result on both backends for every type and
\* every collection, repeated values included.
C7_EquivalenceForEveryCollection ==
    res.form \in {"untouched", "junctions"} =>
        \A c \in Comparisons : res.direct[c] = compare(OtherBackend, Operand, c)

(* C8: a copied junction over a collection that holds a value several times
   behaves as if every value occurred once; for C = {1,1,1}, one(C) == 1,
   all(C) == 1 and any(C) == 1 are true and none(C) == 1 is false. *)
C8_CopyIgnoresRepeats ==
    (res.form = "untouched" /\ j.Ordered) =>
        /\ \A c \in Comparisons :
               res.direct[c] =
                   Collapse(j.type, Range(abc), LAMBDA e : BuiltIn(e, res.d, c))
        /\ (abc = <<1, 1, 1>> /\ res.d = 1) =>
               res.direct["Equal"] = (j.type # "None")

\* one_copy({1,1,1}) == 1 is true.
C8_Witness ==
    /\ res.form = "untouched"
    /\ j.type = "One"
    /\ j.Ordered
    /\ abc = <<1, 1, 1>>
    /\ res.d = 1
    /\ res.direct["Equal"]
    /\ ~res.direct["Less"]

(* C9: where only the right operand is a junction, x OP j equals j OP' x
   with OP' the operator with its operands swapped (< with >, <= with >=,
   == and != themselves), which is the collapse rule of j's type over the
   tests x OP e for the elements e of j; for every type, either backend,
   the empty junction included. *)
C9_ReverseComparison ==
    res.form = "untouched" =>
        \A c \in Comparisons :
            /\ res.reversed[c] = res.direct[Mirror(c)]
            /\ res.reversed[c] =
                   Collapse(j.type, DOMAIN Elements(j),
                       LAMBDA n : BuiltIn(res.d, Elements(j)[n], c))

\* An unordered Any-junction over {2, 0} and the scalar 1: 1 <= j and j <= 1
\* both hold, 1 == j does not.
C9_Witness ==
    /\ res.form = "untouched"
    /\ j.type = "Any"
    /\ ~j.Ordered
    /\ abc = <<2, 0>>
    /\ res.d = 1
    /\ res.reversed["LessEq"]
    /\ res.direct["LessEq"]
    /\ ~res.reversed["Equal"]

\* The values the lambda gives for the elements of j.
Transformed == {Call(res.lambda, e) : e \in Range(Elements(j))}

(* C10: j(f) is a junction of j's type on the ordered backend whose elements
   are exactly the values f(e) for the elements e of j, so each comparison
   of j(f) with a scalar is the collapse rule of the type over those values;
   all({1,2,3})(x -> x + 1) behaves as all({2,3,4}).  For every type, either
   backend, the empty junction included. *)
C10_Transform ==
    res.form = "bumped" =>
        /\ res.junction.type = j.type
        /\ res.junction.Ordered
        /\ Range(res.junction.elements) = Transformed
        /\ IsStdSet(res.junction.elements)
        /\ \A c \in Comparisons :
               /\ res.direct[c] =
                      Collapse(j.type, Transformed, LAMBDA e : BuiltIn(e, res.d, c))
               /\ (abc = <<1, 2, 3>> /\ res.lambda = "bump") =>
                      res.direct[c] =
                          compare(Junction_copy(j.type, <<2, 3, 4>>), Element(res.d), c)

\* A None-junction by reference over {1,2,3}, bumped to {2,3,4} and compared
\* with 4.
C10_Witness ==
    /\ res.form = "bumped"
    /\ res.lambda = "bump"
    /\ j.type = "None"
    /\ ~j.Ordered
    /\ abc = <<1, 2, 3>>
    /\ res.junction.elements = <<2, 3, 4>>
    /\ res.d = 4
    /\ ~res.direct["Equal"]
    /\ res.direct["Greater"]

\* C11 as documented: GetJunctionType() returns None for a None-junction,
\* One for a One-junction, Any for an Any-junction and All for an
\* All-junction, whatever the backend and the contents.
C11_TypeTagging == res.form = "type" => res.reported = j.type

\* What the code does: All-, None- and One-junctions report their own type,
\* an Any-junction reports All.
C11_AnyReportsAll ==
    res.form = "type" =>
        res.reported = (IF j.type = "Any" THEN "All" ELSE j.type)

(* C12: for All-, Any- and One-junctions j != x is the collapse rule of the
   type over the tests e != x for the elements e of j, not the negation of
   j == x: for all({1,2}) both == 2 and != 2 are false, for any({1,2}) both
   are true. *)
C12_NotEqualIsItsOwnCollapse ==
    (res.form = "untouched" /\ j.type \in {"All", "Any", "One"}) =>
        /\ res.direct["NotEqual"] =
               Collapse(j.type, DOMAIN Elements(j),
                   LAMBDA n : Elements(j)[n] # res.d)
        /\ (abc = <<1, 2>> /\ res.d = 2 /\ j.type = "All") =>
               ~res.direct["Equal"] /\ ~res.direct["NotEqual"]
        /\ (abc = <<1, 2>> /\ res.d = 2 /\ j.type = "Any") =>
               res.direct["Equal"] /\ res.direct["NotEqual"]

\* all({1,2}) compared with 2: == and != are both false.
C12_Witness ==
    /\ res.form = "untouched"
    /\ j.type = "All"
    /\ j.Ordered
    /\ abc = <<1, 2>>
    /\ res.d = 2
    /\ ~res.direct["Equal"]
    /\ ~res.direct["NotEqual"]

(* C13: a junction built by reference over a named container v observes a
   later change of v: its results after the change are those over what v
   holds then (any_ref(v) == 13 is false, and true once 13 is appended to
   v); a junction built by copy returns after the change what it returned
   before it. *)
C13_AliasObservesCopyDoesNot ==
    res.form = "again" =>
        /\ j.Ordered => res.direct = res.before
        /\ ~j.Ordered =>
               \A c \in Comparisons :
                   res.direct[c] =
                       Collapse(j.type, DOMAIN abc,
                           LAMBDA n : BuiltIn(abc[n], res.d, c))
        /\ (/\ ~j.Ordered
            /\ j.type = "Any"
            /\ res.d = 13
            /\ 13 \notin Range(res.was)
            /\ abc = Append(res.was, 13)) =>
               ~res.before["Equal"] /\ res.direct["Equal"]

\* any_ref(v) == 13 before and after v.push_back(13).
C13_Witness ==
    /\ res.form = "again"
    /\ j.type = "Any"
    /\ ~j.Ordered
    /\ res.d = 13
    /\ res.was = <<1, 2>>
    /\ abc = <<1, 2, 13>>
    /\ ~res.before["Equal"]
    /\ res.direct["Equal"]

(* C14: for each of the four types, x_copy gives a junction with Ordered
   true and x_ref one with Ordered false whatever the source; the default
   function x gives Ordered true for a temporary source (a braced list, an
   rvalue vector or set, const or not) and for a pair of iterators, and
   Ordered false for a named initializer list, vector or set, const or
   not. *)
C14_ConstructionModes ==
    res.form = "constructed" =>
        j.Ordered =
            CASE res.function = "x_copy" -> TRUE
              [] res.function = "x_ref"  -> FALSE
              [] res.function = "x"      -> res.source.form # "lvalue"

\* one(make_const_set()): a const temporary set is copied.
C14_Witness ==
    /\ res.form = "constructed"
    /\ res.function = "x"
    /\ res.source = [kind |-> "set", form |-> "rvalue", const |-> TRUE]
    /\ j.type = "One"
    /\ j.Ordered
    /\ ~j.moved
    /\ abc = <<0, 2>>

-----------------------------------------------------------------------------
\* C15: no comparison errors.  Whatever the variant and the backend of the
\* junction, and whether the right operand is a constant or a junction, empty
\* ones included, each of the six comparisons returns a boolean, and every
\* accessor call made on the way has its assertion satisfied: FirstElement
\* and LastElement are called on non-empty stores, SecondElement and
\* PenultimateElement on stores with at least two elements.
C15_NoComparisonErrors ==
    res.form \in {"untouched", "junctions"} =>
        \A c \in Comparisons :
            /\ res.direct[c] \in BOOLEAN
            /\ \A call \in AccessorCalls(j, Operand, c) : call.asserted
            /\ res.form = "untouched" =>
                   /\ res.reversed[c] \in BOOLEAN
                   /\ \A call \in AccessorCalls(Operand, j, c) : call.asserted

\* one_copy({0, 1}) < all({}) calls FirstElement and SecondElement of the left
\* junction and nothing of the empty right one, and is false: both elements
\* are less than all of no elements.
C15_Witness ==
    /\ res.form = "junctions"
    /\ j.type = "One" /\ j.Ordered /\ Elements(j) = <<0, 1>>
    /\ k.type = "All" /\ k.Ordered /\ IsEmpty(k)
    /\ AccessorCalls(j, k, "Less") =
           {[accessor |-> "FirstElement", asserted |-> TRUE],
            [accessor |-> "SecondElement", asserted |-> TRUE]}
    /\ ~res.direct["Less"]

-----------------------------------------------------------------------------
\* C16: immutability.  Once a junction is constructed, no comparison, in
\* either operand position, and no transform changes its elements, its
\* variant or its backend, nor those of the junction it is compared with; and
\* as long as the container it may alias is left alone, it gives after every
\* use the results it gave for the same constant straight after construction.
C16_Immutable ==
    [][/\ j # NoJunction =>
              /\ j' = j
              /\ Elements(j)' = Elements(j)
       /\ k # NoJunction =>
              /\ k' = k
              /\ Elements(k)' = Elements(k)
       /\ res'.form = "used" =>
              /\ res'.direct = res'.first.direct
              /\ res'.reversed = res'.first.reversed]_vars

\* any_ref({1, 2}) == 2 is true straight after construction and still true
\* after a comparison with all({1, 5, 9}) and then a transform.
C16_Witness ==
    /\ res.form = "used" /\ res.use = "transform"
    /\ k # NoJunction /\ k.type = "All"
    /\ j.type = "Any" /\ ~j.Ordered /\ Elements(j) = <<1, 2>>
    /\ res.d = 2
    /\ res.first.direct["Equal"] /\ res.direct["Equal"]
    /\ res.first.reversed["Equal"] /\ res.reversed["Equal"]

-----------------------------------------------------------------------------
\* C17: concurrent reads.  When threads evaluate comparisons on one junction
\* at the same time and nobody changes the container it may alias, each
\* thread, however its inspections of the store are interleaved with those of
\* the others, returns what its comparison returns when evaluated alone, and
\* the junction and its elements stay what they were.
C17_ConcurrentReads ==
    res.form = "threads" =>
        /\ j = res.junction
        /\ Elements(j) = res.elements
        /\ \A t \in Threads :
               res.threads[t].pc = "done" =>
                   res.threads[t].result =
                       compare(j, Element(res.d), res.comparison[t])

\* Both threads have returned from one_ref({2, 1}): the first found
\* one_ref({2, 1}) <= 1 true, the second one_ref({2, 1}) >= 1 false, each after
\* looking at both elements.
C17_Witness ==
    /\ res.form = "threads"
    /\ j.type = "One" /\ ~j.Ordered /\ Elements(j) = <<2, 1>>
    /\ res.d = 1
    /\ res.comparison["first_thread"] = "LessEq"
    /\ res.threads["first_thread"] =
           [pc |-> "done", i |-> 3, matches |-> 1, result |-> TRUE]
    /\ res.comparison["second_thread"] = "GreaterEq"
    /\ res.threads["second_thread"] =
           [pc |-> "done", i |-> 2, matches |-> 2, result |-> FALSE]

-----------------------------------------------------------------------------
\* C18: for all collections L and R and each of the six operators,
\* none(L) OP none(R) is true exactly when all(L) OP any(R) is true, which is
\* when every element of L satisfies OP against at least one element of R.
C18_NoneToNoneIsAllToAny ==
    (res.form = "junctions" /\ j.type = "None" /\ k.type = "None") =>
        \A c \in Comparisons :
            /\ res.direct[c] =
                   compare([j EXCEPT !.type = "All"], [k EXCEPT !.type = "Any"], c)
            /\ res.direct[c] =
                   \A m \in DOMAIN abc : \E n \in DOMAIN def : BuiltIn(abc[m], def[n], c)

\* none({0, 1}) against none({1, 2}): each of 0 and 1 is less than 1 or 2, so
\* < is true; 0 equals neither 1 nor 2, so == is false; 1 is greater than
\* neither, so > is false.
C18_Witness ==
    /\ res.form = "junctions"
    /\ j.type = "None" /\ k.type = "None" /\ j.Ordered /\ k.Ordered
    /\ abc = <<0, 1>> /\ def = <<1, 2>>
    /\ res.direct["Less"] /\ ~res.direct["Equal"] /\ ~res.direct["Greater"]
    /\ compare([j EXCEPT !.type = "All"], [k EXCEPT !.type = "Any"], "Less")

-----------------------------------------------------------------------------
\* C19: between two junctions j OP k is the left junction's operator: j is
\* the outer quantifier, over the tests e OP k of its elements, and only
\* those tests, with a junction on the right alone, go through the reverse
\* operators and come out as k OP' e, OP' being OP mirrored.  The mirrored
\* comparison k OP' j of the junctions themselves is another comparison, with
\* k as the outer quantifier: all({1, 2}) == any({1, 2}) is true and
\* any({1, 2}) == all({1, 2}) is false.
C19_LeftJunctionIsOuter ==
    res.form = "junctions" =>
        \A c \in Comparisons :
            /\ ~IsOnlySecondAJunction(j, k)
            /\ res.direct[c] =
                   Collapse(j.type, DOMAIN Elements(j),
                       LAMBDA m : compare(Element(Elements(j)[m]), k, c))
            /\ \A m \in DOMAIN Elements(j) :
                   /\ IsOnlySecondAJunction(Element(Elements(j)[m]), k)
                   /\ compare(Element(Elements(j)[m]), k, c) =
                          compare(k, Element(Elements(j)[m]), Mirror(c))
            /\ (j.type = "All" /\ k.type = "Any" /\ c = "Equal"
                    /\ abc = <<1, 2>> /\ def = <<1, 2>>) =>
                   /\ res.direct[c]
                   /\ ~compare(k, j, Mirror(c))

\* all({1, 2}) == any({1, 2}) is true, each of 1 and 2 being equal to one of
\* 1 and 2, and any({1, 2}) == all({1, 2}) is false, neither being equal to
\* both.
C19_Witness ==
    /\ res.form = "junctions"
    /\ j.type = "All" /\ k.type = "Any" /\ j.Ordered /\ k.Ordered
    /\ abc = <<1, 2>> /\ def = <<1, 2>>
    /\ res.direct["Equal"]
    /\ ~compare(k, j, Mirror("Equal"))
    /\ ~compare([j EXCEPT !.type = "Any"], [k EXCEPT !.type = "All"], "Equal")

-----------------------------------------------------------------------------
\* C20: the short cut of the ordered store.  Against a constant, an
\* All-junction or an Any-junction, and for <, <=, >= and >, a non-empty
\* ordered All-junction decides by its last element for < and <= and by its
\* first for >= and >; a non-empty ordered Any-junction decides by its first
\* element for < and <= and by its last for >= and >, and so does a
\* None-junction before it inverts; and the result is always that of the
\* scan of all the elements, the collapse of the junction's type.
C20_ShortCircuit ==
    (/\ res.form \in {"untouched", "junctions"}
     /\ j.Ordered /\ j.type \in {"All", "Any", "None"}
     /\ res.form = "junctions" => k.type \in {"All", "Any"}) =>
        \A c \in {"Less", "LessEq", "GreaterEq", "Greater"} :
            LET first   == Elements(j)[1]
                last    == Elements(j)[Len(Elements(j))]
                decider == IF (j.type = "All") = (c \in {"Less", "LessEq"})
                           THEN last ELSE first
            IN  /\ Elements(j) # <<>> =>
                       res.direct[c] = Invert(j, compare(Element(decider), Operand, c))
                /\ res.direct[c] =
                       IF j.type = "All"
                       THEN All_CheckAllElements(j, c, Operand)
                       ELSE Invert(j, AnyOrNone_CheckAllElements(j, c, Operand))
                /\ res.direct[c] =
                       Collapse(j.type, DOMAIN Elements(j),
                           LAMBDA m : compare(Element(Elements(j)[m]), Operand, c))

\* all_copy({0, 2}) < any({1, 2}) is false, as 2 < any({1, 2}) is, although
\* 0 < any({1, 2}) is true; and all_copy({0, 2}) >= any({1, 2}) is false, as
\* 0 >= any({1, 2}) is, although 2 >= any({1, 2}) is true.
C20_Witness ==
    /\ res.form = "junctions"
    /\ j.type = "All" /\ j.Ordered /\ Elements(j) = <<0, 2>>
    /\ k.type = "Any" /\ def = <<1, 2>>
    /\ ~res.direct["Less"] /\ compare(Element(0), k, "Less")
    /\ ~res.direct["GreaterEq"] /\ compare(Element(2), k, "GreaterEq")

-----------------------------------------------------------------------------
\* C21: the short cut against a None-junction on the right.  For <, <=, >=
\* and >, a non-empty ordered All-junction decides by its first element for
\* < and <= and by its last for >= and >, the opposite of what it does
\* against a constant; a non-empty ordered Any-junction decides by its last
\* element for < and <= and by its first for >= and >, and so does a
\* None-junction before it inverts; and the result is always that of the
\* scan: the collapse, over the elements l of the left container, of the test
\* that no element r of the right one satisfies l OP r.
C21_ShortCircuitAgainstNone ==
    (/\ res.form = "junctions"
     /\ j.Ordered /\ j.type \in {"All", "Any", "None"}
     /\ k.type = "None") =>
        \A c \in {"Less", "LessEq", "GreaterEq", "Greater"} :
            LET first   == Elements(j)[1]
                last    == Elements(j)[Len(Elements(j))]
                decider == IF (j.type = "All") = (c \in {"Less", "LessEq"})
                           THEN first ELSE last
            IN  /\ Elements(j) # <<>> =>
                       res.direct[c] = Invert(j, compare(Element(decider), k, c))
                /\ res.direct[c] =
                       IF j.type = "All"
                       THEN All_CheckAllElements(j, c, k)
                       ELSE Invert(j, AnyOrNone_CheckAllElements(j, c, k))
                /\ res.direct[c] =
                       Collapse(j.type, DOMAIN abc,
                           LAMBDA m : ~\E n \in DOMAIN def : BuiltIn(abc[m], def[n], c))

\* all_copy({0, 2}) <= none({1}) is false, as 0 <= none({1}) is, although
\* 2 <= none({1}) is true; and all_copy({0, 2}) >= none({1}) is false, as
\* 2 >= none({1}) is, although 0 >= none({1}) is true.
C21_Witness ==
    /\ res.form = "junctions"
    /\ j.type = "All" /\ j.Ordered /\ Elements(j) = <<0, 2>>
    /\ k.type = "None" /\ def = <<1>>
    /\ ~res.direct["LessEq"] /\ compare(Element(2), k, "LessEq")
    /\ ~res.direct["GreaterEq"] /\ compare(Element(0), k, "GreaterEq")

-----------------------------------------------------------------------------
\* C22: the short cut of an ordered One-junction against a constant, an
\* All-junction or an Any-junction.  For < and <= the result is: the store is
\* not empty, its first element satisfies OP, and it is not so that there is
\* a second element and it satisfies OP; for >= and > the same with the last
\* element and the one before it.  For stores of every size, 0, 1 and 2
\* included, that is: exactly one of the distinct elements satisfies OP
\* against the right operand.
C22_OneShortCircuit ==
    (/\ res.form \in {"untouched", "junctions"}
     /\ j.Ordered /\ j.type = "One"
     /\ res.form = "junctions" => k.type \in {"All", "Any"}) =>
        \A c \in {"Less", "LessEq", "GreaterEq", "Greater"} :
            LET elems   == Elements(j)
                N       == Len(elems)
                rising  == c \in {"Less", "LessEq"}
                extreme == IF rising THEN elems[1] ELSE elems[N]
                next    == IF rising THEN elems[2] ELSE elems[N - 1]
                OP(e)   == compare(Element(e), Operand, c)
            IN  /\ res.direct[c] = (/\ N # 0
                                    /\ OP(extreme)
                                    /\ ~(N >= 2 /\ OP(next)))
                /\ res.direct[c] = (Cardinality({e \in Range(abc) : OP(e)}) = 1)

\* one_copy over containers of no, one and two distinct values against the
\* constant 1: <= is false over {}, true over {1}, false over {0, 1} and true
\* over {1, 2}.
C22_Witness ==
    /\ res.form = "untouched" /\ res.d = 1
    /\ j.Ordered /\ j.type = "One"
    /\ Elements(j) = <<1, 2>>
    /\ res.direct["LessEq"] /\ ~res.direct["GreaterEq"]
    /\ ~compare([j EXCEPT !.elements = <<>>], Element(1), "LessEq")
    /\ compare([j EXCEPT !.elements = <<1>>], Element(1), "LessEq")
    /\ ~compare([j EXCEPT !.elements = <<0, 1>>], Element(1), "LessEq")

-----------------------------------------------------------------------------
\* C23: the short cut of an ordered One-junction against a None-junction on
\* the right.  The extremes are the opposite of those against a constant:
\* the last element and the one before it for < and <=, the first and the
\* second for >= and >.  For all containers L and R the result is: exactly
\* one of the distinct values l of L has no r in R with l OP r.
C23_OneShortCircuitAgainstNone ==
    (/\ res.form = "junctions"
     /\ j.Ordered /\ j.type = "One"
     /\ k.type = "None") =>
        \A c \in {"Less", "LessEq", "GreaterEq", "Greater"} :
            LET elems   == Elements(j)
                N       == Len(elems)
                rising  == c \in {"Less", "LessEq"}
                extreme == IF rising THEN elems[N] ELSE elems[1]
                next    == IF rising THEN elems[N - 1] ELSE elems[2]
                OP(e)   == compare(Element(e), k, c)
            IN  /\ res.direct[c] = (/\ N # 0
                                    /\ OP(extreme)
                                    /\ ~(N >= 2 /\ OP(next)))
                /\ res.direct[c] =
                       (Cardinality({l \in Range(abc) :
                            ~\E n \in DOMAIN def : BuiltIn(l, def[n], c)}) = 1)

\* one_copy({0, 1, 2}) against none({1}): only 2 is less than or equal to no
\* element of {1}, so <= is true, decided by 2 and 1; only 0 is greater than
\* or equal to no element, so >= is true, decided by 0 and 1; both 1 and 2
\* are less than no element, so < is false, and both 0 and 1 are greater
\* than no element, so > is false.
C23_Witness ==
    /\ res.form = "junctions"
    /\ j.Ordered /\ j.type = "One" /\ Elements(j) = <<0, 1, 2>>
    /\ k.type = "None" /\ def = <<1>>
    /\ res.direct["LessEq"] /\ res.direct["GreaterEq"]
    /\ ~res.direct["Less"] /\ ~res.direct["Greater"]

-----------------------------------------------------------------------------
\* C24: a One-junction on the right forces a scan.  Whatever the type and
\* the backend of the left junction j, and for each of the six operators,
\* j OP one(R) is the result of CheckAllElements, which tests the elements of
\* j against one(R) one after another, and no overload that looks at the
\* extremes is selected.  The result is the collapse of j's type, over the
\* elements j holds, of the test that exactly one of the elements the right
\* junction holds satisfies l OP r: on the ordered backend a junction holds
\* each value once, on the unordered backend every occurrence.
C24_OneOnTheRightForcesScan ==
    (res.form = "junctions" /\ k.type = "One") =>
        \A c \in Comparisons :
            /\ ~UsesExtremes(j, k, c)
            /\ res.direct[c] =
                   CASE j.type = "All" -> All_CheckAllElements(j, c, k)
                     [] j.type = "One" -> One_CheckAllElements(j, c, k)
                     [] OTHER          -> Invert(j, AnyOrNone_CheckAllElements(j, c, k))
            /\ Elements(j) # <<>> => Tested(j, k, c) >= 1
            /\ res.direct[c] =
                   Collapse(j.type, DOMAIN Elements(j),
                       LAMBDA m : Cardinality({n \in DOMAIN Elements(k) :
                                      BuiltIn(Elements(j)[m], Elements(k)[n], c)}) = 1)

\* all_copy({0, 2}) > one({1, 2}) is false: 0 is greater than neither 1 nor
\* 2, and the scan stops there; the last element, 2, is greater than exactly
\* one of them.
C24_Witness ==
    /\ res.form = "junctions"
    /\ j.type = "All" /\ j.Ordered /\ Elements(j) = <<0, 2>>
    /\ k.type = "One" /\ k.Ordered /\ def = <<1, 2>>
    /\ ~res.direct["Greater"]
    /\ Tested(j, k, "Greater") = 1
    /\ compare(Element(2), k, "Greater")

\* C24 as written, over the collections L and R as the caller supplies them,
\* repeated values included: j OP one(R) is the collapse over the l in L of
\* the test that exactly one r in R satisfies l OP r.
C24_CollapseOverTheCollections ==
    (res.form = "junctions" /\ k.type = "One") =>
        \A c \in Comparisons :
            res.direct[c] =
                Collapse(j.type, DOMAIN abc,
                    LAMBDA m : Cardinality({n \in DOMAIN def :
                                   BuiltIn(abc[m], def[n], c)}) = 1)

-----------------------------------------------------------------------------
\* C25: the ordered store.  However it is constructed, from a list, a range
\* or a set, it holds the distinct values of its input, each once, in
\* ascending order.  IsEmpty is true exactly when there is none and
\* HasSecondElement exactly when there are two or more; FirstElement is the
\* least value, LastElement the greatest, SecondElement the second least and
\* PenultimateElement the second greatest, so that with two values
\* SecondElement is LastElement and PenultimateElement is FirstElement, and
\* with one value FirstElement is LastElement.
C25_OrderedStore ==
    (j # NoJunction /\ j.Ordered) =>
        LET input    == Range(abc)
            Least(S)    == CHOOSE e \in S : \A f \in S : e <= f
            Greatest(S) == CHOOSE e \in S : \A f \in S : e >= f
        IN  /\ \A m, n \in DOMAIN Elements(j) : m < n => Elements(j)[m] < Elements(j)[n]
            /\ Range(Elements(j)) = input
            /\ GetSize(j) = Cardinality(input)
            /\ IsEmpty(j) <=> input = {}
            /\ HasSecondElement(j) <=> Cardinality(input) >= 2
            /\ input # {} =>
                   /\ FirstElement(j) = Least(input)
                   /\ LastElement(j) = Greatest(input)
            /\ Cardinality(input) >= 2 =>
                   /\ SecondElement(j) = Least(input \ {Least(input)})
                   /\ PenultimateElement(j) = Greatest(input \ {Greatest(input)})
            /\ Cardinality(input) = 2 =>
                   /\ SecondElement(j) = LastElement(j)
                   /\ PenultimateElement(j) = FirstElement(j)
            /\ Cardinality(input) = 1 => FirstElement(j) = LastElement(j)

\* A junction copied from the list {2, 0}: the store is <<0, 2>>, with 2 both
\* the second and the last element and 0 both the first and the penultimate.
C25_Witness ==
    /\ j # NoJunction /\ j.Ordered
    /\ abc = <<2, 0>>
    /\ Elements(j) = <<0, 2>>
    /\ FirstElement(j) = 0 /\ PenultimateElement(j) = 0
    /\ SecondElement(j) = 2 /\ LastElement(j) = 2

-----------------------------------------------------------------------------
\* C26: the preconditions of the positional accessors.  Called with its
\* precondition satisfied (a non-empty store for FirstElement and
\* LastElement, two elements or more for SecondElement and
\* PenultimateElement), an accessor returns the element at its position and
\* changes nothing.  Called without, it ends in a failed assertion and
\* returns no value, as long as the assertions are compiled in.
C26_AccessorPreconditions ==
    res.form = "accessor" =>
        LET N == Len(res.elements)
            satisfied == IF res.accessor \in {"FirstElement", "LastElement"}
                         THEN N >= 1 ELSE N >= 2
        IN  /\ j = res.junction /\ Elements(j) = res.elements
            /\ satisfied =>
                   /\ res.outcome.kind = "returned"
                   /\ res.outcome.value =
                          CASE res.accessor = "FirstElement"       -> res.elements[1]
                            [] res.accessor = "SecondElement"      -> res.elements[2]
                            [] res.accessor = "PenultimateElement" -> res.elements[N - 1]
                            [] res.accessor = "LastElement"        -> res.elements[N]
            /\ (~satisfied /\ ~res.NDEBUG) => res.outcome.kind = "assertion failed"

\* SecondElement called on a store of one element, with the assertions
\* compiled in: the assertion fails.
C26_Witness ==
    /\ res.form = "accessor"
    /\ res.accessor = "SecondElement" /\ ~res.NDEBUG
    /\ Len(res.elements) = 1
    /\ res.outcome = [kind |-> "assertion failed"]

\* C26 as written: a call without the precondition always ends in a failed
\* assertion and returns no value.
C26_AlwaysAFatalAssertion ==
    res.form = "accessor" =>
        LET N == Len(res.elements)
            satisfied == IF res.accessor \in {"FirstElement", "LastElement"}
                         THEN N >= 1 ELSE N >= 2
        IN  ~satisfied => res.outcome.kind = "assertion failed"

-----------------------------------------------------------------------------
\* C27: bounded inspection.  Whatever the number of its elements, an ordered
\* junction compared with a constant by <, <=, >= or > tests at most one of
\* its elements if it is an All-, an Any- or a None-junction, and at most two
\* if it is a One-junction: the extreme and the element next to it.
C27_BoundedInspection ==
    (res.form = "untouched" /\ j.Ordered) =>
        \A c \in {"Less", "LessEq", "GreaterEq", "Greater"} :
            LET rising == c \in {"Less", "LessEq"}
                calls  == {call.accessor : call \in AccessorCalls(j, Operand, c)}
            IN  /\ Inspected(j, Operand, c) <= (IF j.type = "One" THEN 2 ELSE 1)
                /\ Inspected(j, Operand, c) = Cardinality(calls)
                /\ calls \subseteq
                       CASE j.type = "All" ->
                                IF rising THEN {"LastElement"} ELSE {"FirstElement"}
                         [] j.type = "One" ->
                                IF rising THEN {"FirstElement", "SecondElement"}
                                ELSE {"LastElement", "PenultimateElement"}
                         [] OTHER ->
                                IF rising THEN {"FirstElement"} ELSE {"LastElement"}

\* one({1, 2, 3, 4}) > 2 tests 4 and 3, two of the four elements, and is
\* false; all({1, 2, 3, 4}) > 2 would test 1 alone.
C27_Witness ==
    /\ res.form = "untouched" /\ res.d = 2
    /\ j.type = "One" /\ j.Ordered /\ Elements(j) = <<1, 2, 3, 4>>
    /\ ~res.direct["Greater"]
    /\ Inspected(j, Operand, "Greater") = 2
    /\ Inspected([j EXCEPT !.type = "All"], Operand, "Greater") = 1
    /\ Inspected([j EXCEPT !.type = "Any"], Operand, "Less") = 1

-----------------------------------------------------------------------------
\* C28: a junction built by reference keeps the repeats of its container.  A
\* One-junction counts every occurrence of a value, so that over <<1, 1, 1>>
\* one_ref == 1 is false, with three matches; All, Any and None junctions
\* built by reference give the results of their collapse over the distinct
\* values.
C28_RepeatsOnTheUnorderedStore ==
    (res.form = "untouched" /\ ~j.Ordered) =>
        /\ Elements(j) = abc
        /\ \A c \in Comparisons :
               res.direct[c] =
                   IF j.type = "One"
                   THEN Cardinality({n \in DOMAIN abc : BuiltIn(abc[n], res.d, c)}) = 1
                   ELSE Collapse(j.type, Range(abc), LAMBDA e : BuiltIn(e, res.d, c))
        /\ (j.type = "One" /\ abc = <<1, 1, 1>> /\ res.d = 1) => ~res.direct["Equal"]

\* one_ref over <<1, 1, 1>> compared with 1: three matches, hence false, where
\* the junction over the set {1} is true.
C28_Witness ==
    /\ res.form = "untouched"
    /\ j.type = "One" /\ ~j.Ordered
    /\ abc = <<1, 1, 1>> /\ res.d = 1
    /\ ~res.direct["Equal"]
    /\ Cardinality({n \in DOMAIN abc : BuiltIn(abc[n], res.d, "Equal")}) = 3
    /\ Collapse("One", Range(abc), LAMBDA e : BuiltIn(e, res.d, "Equal"))

-----------------------------------------------------------------------------
\* C29: the junction j(f) holds the values f gives on the elements of j, each
\* of them once and in ascending order, whether f is one-to-one and monotonic
\* or not.  Hence for a One-junction j that is not empty and a constant
\* function f with value c, j(f) == c is true; and every comparison of j(f)
\* by <, <=, >= or > equals the collapse over the set of the values f(e).
C29_TransformIsASet ==
    res.form = "bumped" =>
        LET image == {Call(res.lambda, e) : e \in Range(Elements(j))}
        IN  /\ res.junction.Ordered
            /\ IsStdSet(Elements(res.junction))
            /\ Range(Elements(res.junction)) = image
            /\ Len(Elements(res.junction)) = Cardinality(image)
            /\ (/\ j.type = "One"
                /\ ~IsEmpty(j)
                /\ res.lambda = "constant"
                /\ res.d = Call("constant", 0)) => res.direct["Equal"]
            /\ \A c \in {"Less", "LessEq", "GreaterEq", "Greater"} :
                   res.direct[c] =
                       Collapse(res.junction.type, image,
                           LAMBDA e : BuiltIn(e, res.d, c))

\* The constant function on one({1, 2, 3, 4}): four results, one element,
\* and j(f) == 1 is true.
C29_Witness ==
    /\ res.form = "bumped" /\ res.lambda = "constant" /\ res.d = 1
    /\ j.type = "One" /\ Elements(j) = <<1, 2, 3, 4>>
    /\ Elements(res.junction) = <<1>>
    /\ res.direct["Equal"]
    /\ res.direct["LessEq"] /\ ~res.direct["Less"]

\* A function that is not monotonic, on a junction over <<0, 1, 2>>: the
\* results 1, 0, 1 are held as 0, 1.
C29_WitnessNotMonotonic ==
    /\ res.form = "bumped" /\ res.lambda = "distance"
    /\ Elements(j) = <<0, 1, 2>>
    /\ Elements(res.junction) = <<0, 1>>

-----------------------------------------------------------------------------
\* C30: a transformed junction does not depend on its source.  After
\* j2 = j(f), with j built by reference over a named container, a change of
\* the container changes no result of a comparison of j2, whereas j returns
\* what it returns over the container as it is then; and the transform leaves
\* j and the container as they were.
C30_TransformedIsIndependent ==
    /\ res.form \in {"transformed", "source changed", "both"} =>
           /\ j = res.source
           /\ k.Ordered
           /\ Range(Elements(k)) = {Call(res.lambda, e) : e \in Range(res.was)}
    /\ res.form = "transformed" => abc = res.was
    /\ res.form = "both" =>
           /\ res.after.j2 = res.before.j2
           /\ ~j.Ordered =>
                  \A c \in Comparisons :
                      res.after.j[c] =
                          Collapse(j.type, DOMAIN abc,
                              LAMBDA n : BuiltIn(abc[n], res.d, c))

\* any_ref over <<0, 1>> and its transform by n + 1, compared with 2; then 2
\* is appended to the container: j == 2 turns true, j2 == 2 stays true and
\* j2 > 2 stays false, though 2 + 1 > 2.
C30_Witness ==
    /\ res.form = "both" /\ res.lambda = "bump" /\ res.d = 2
    /\ j.type = "Any" /\ ~j.Ordered
    /\ res.was = <<0, 1>> /\ abc = <<0, 1, 2>>
    /\ Elements(k) = <<1, 2>>
    /\ ~res.before.j["Equal"] /\ res.after.j["Equal"]
    /\ res.before.j2["Equal"] /\ res.after.j2["Equal"]
    /\ ~res.after.j2["Greater"]

====
